---- MODULE Spec2Model ----
(***************************************************************************)
(* A model of picobot's reasoning pipeline: the session manager            *)
(* (package session), the message hub (package chat), the transport proxy  *)
(* and the ntfy sender (package channels) and the agent loop (package      *)
(* agent).                                                                 *)
(***************************************************************************)
EXTENDS Naturals, Integers, Sequences, FiniteSets, TLC

(***************************************************************************)
(* Program constants.                                                      *)
(***************************************************************************)
MaxHistorySize == 50

(***************************************************************************)
(* Bounds of the model.                                                    *)
(***************************************************************************)
\* AddMessage calls made by a driver of the session manager.
MaxAdds == 2
\* NewHub(buffer): the capacity of each of the hub's four queues.
Buffer == 1
\* NewHub(buffer) for the hubs whose order of dispatch and of processing is observed.
OrderBuffer == 2
\* Inbound messages the transports push onto Hub.In.
MaxInbound == 2
\* Outbound messages the producers of a hub without agent loop push onto Hub.Out.
MaxOutbound == 3
\* The largest configured maxIterations (agents.defaults.maxToolIterations).
MaxIter == 2
\* The most tool calls one provider response requests, under the gateway.
MaxCalls == 1
\* The most tool calls one provider response requests, elsewhere.
MaxTurnCalls == 2
\* The most StoreHistory calls made before QueryHistory is called.
MaxRows == 3
\* The most float32 values in a BLOB handed to the SQL functions.
MaxDim == 2
\* The goroutines that call StoreHistory or BatchStoreHistory, once each.
MaxWriters == 2
\* The most items handed to BatchStoreHistory.
MaxItems == 2
\* The longest history and the most memories handed to BuildMessages.
MaxBuild == 2
\* The most token ids the tokenizer's encoding of one text has, and the most
\* texts of a batch.
MaxIds == 3
MaxBatch == 2
\* Tokenizer.maxLength of the model (512 in NewTokenizerWithConfig).
TokenizerMaxLength == 3
\* The goroutines that call EmbedBatch, and the most texts of one call.
MaxEmbedders == 2
MaxTexts == 3
\* ModelConfig.BatchSize of the model (32 in NewONNXEmbeddingEngine).
ConfigBatchSize == 2
\* The most words of a text handed to ONNXEmbedder.Embed.
MaxWords == 3
\* ONNXEmbedder.chunkMaxWords of the model (200 in NewONNXEmbedder).
ChunkMaxWords == 1

VARIABLES
    mode,          \* what runs: "gateway" (Run, proxy, senders), "cli" (ProcessDirect),
                   \* "proxy" (the hub, the proxy and the senders alone), "turn"
                   \* (Run alone), "query" (a caller of QueryHistory),
                   \* "session" (a driver of the session manager's API) or
                   \* "scalar" (a statement calling the SQL functions),
                   \* "store" (goroutines writing to persistent memory),
                   \* "order" (as "proxy", with queues of OrderBuffer),
                   \* "build" (a caller of BuildMessages),
                   \* "embed" (a caller of ONNXEmbedder.Embed)
    diskFaults,    \* whether writes to the workspace may fail in this run
    sessions,      \* SessionManager.sessions: key -> Session.History
    files,         \* {workspace}/sessions/{key}.json: key -> the file's content
    lastOp,        \* the session-manager call that ran last, with what it returned
    adds,          \* AddMessage calls made so far by the API driver
    notes,         \* MemoryStore: the notes appended to today's file
    memEnabled,    \* AgentLoop.memoryPersist != nil
    memRows,       \* MemoryPersist: the rows of table history, in insertion order
    storeCalls,    \* the calls of StoreHistory so far: the row each was to insert
    memConf,       \* MemoryPersist.threshold and MemoryPersist.topk
    lastQuery,     \* the QueryHistory call that ran last, with what it returned
    maxIterations, \* AgentLoop.maxIterations
    hubIn,         \* Hub.In
    hubOut,        \* Hub.Out
    telegramOut,   \* Hub.TelegramOut
    ntfyOut,       \* Hub.NtfyOut
    closed,        \* Hub.Close has closed the four queues
    cancelled,     \* the process-wide context is done
    panicked,      \* a goroutine panicked: the process is gone
    nextId,        \* the number of the next inbound message (a label for tracing)
    run,           \* AgentLoop.Run: its position and locals
    proxy,         \* the proxy goroutine's position
    ntfy,          \* the ntfy sender goroutine's position
    ntfySent,      \* the messages nc.Send was called for (0: a zero-value message)
    fate,          \* per inbound message: what became of its reply
    pd,            \* AgentLoop.ProcessDirect: its position and locals
    call,          \* the library function called last, with what it returned
    store,         \* MemoryPersist.mu and the calls of StoreHistory and
                   \* BatchStoreHistory under way
    engine         \* ONNXEmbeddingEngine: its context, its InferenceStats and
                   \* the calls of EmbedBatch and GetStats under way

vars == <<mode, diskFaults, sessions, files, lastOp, adds, notes, memEnabled, memRows,
          storeCalls, memConf, lastQuery,
          maxIterations, hubIn, hubOut, telegramOut, ntfyOut, closed, cancelled,
          panicked, nextId, run, proxy, ntfy, ntfySent, fate, pd, call, store, engine>>

libVars == <<call, store, engine>>
sessionVars == <<sessions, files, lastOp>>
hubVars == <<hubIn, hubOut, telegramOut, ntfyOut, closed>>
configVars == <<mode, diskFaults, memEnabled, maxIterations>>

(***************************************************************************)
(* package session                                                         *)
(***************************************************************************)
Roles == {"user", "assistant", "tool"}

Message(role, content) == [role |-> role, content |-> content]

\* Session.Trim, the slice it returns: History[:len-MaxHistorySize], or nil.
TrimPrefix(h) ==
    IF Len(h) > MaxHistorySize THEN SubSeq(h, 1, Len(h) - MaxHistorySize) ELSE <<>>

\* A Trim that cuts one message too many: History[len-MaxHistorySize+1:].
TrimTailShort(h) ==
    IF Len(h) > MaxHistorySize
    THEN SubSeq(h, Len(h) - MaxHistorySize + 2, Len(h))
    ELSE h

\* Session.Trim, the History it leaves: History[len-MaxHistorySize:].
TrimTail(h) ==
    IF Len(h) > MaxHistorySize
    THEN SubSeq(h, Len(h) - MaxHistorySize + 1, Len(h))
    ELSE h


\* A session file: the history it holds, and whether json.Unmarshal accepts it.
SessionFile(h) == [valid |-> TRUE, history |-> h]
CorruptFile == [valid |-> FALSE, history |-> <<>>]

\* SessionManager.LoadAll: every readable, well-formed file becomes a session;
\* the others are skipped. Nothing is trimmed on load.
LoadAll(fs) ==
    LET good == {k \in DOMAIN fs : fs[k].valid}
    IN  [k \in good |-> fs[k].history]

\* A GetOrCreate that makes a new session at every call.
GetOrCreateFresh(ss, key) ==
    [k \in DOMAIN ss \cup {key} |-> IF k = key THEN <<>> ELSE ss[k]]

\* SessionManager.GetOrCreate: the map after the call.
GetOrCreate(ss, key) ==
    IF key \in DOMAIN ss THEN ss
    ELSE [k \in DOMAIN ss \cup {key} |-> IF k = key THEN <<>> ELSE ss[k]]

\* Session.AddMessage: append to History.
AddMessage(h, role, content) == Append(h, Message(role, content))

\* SessionManager.TrimAll, the map it leaves: every session trimmed.
TrimAllSessions(ss) == [k \in DOMAIN ss |-> TrimTail(ss[k])]

\* The concatenation of the trimmed prefixes of the sessions `order` lists.
RECURSIVE ConcatPrefixes(_, _)
ConcatPrefixes(ss, order) ==
    IF order = <<>> THEN <<>>
    ELSE TrimPrefix(ss[Head(order)]) \o ConcatPrefixes(ss, Tail(order))

\* The orders in which a range over the map may visit the sessions that have
\* something to trim (Go's map iteration order is not specified).
TrimOrders(ss) ==
    LET over == {k \in DOMAIN ss : TrimPrefix(ss[k]) # <<>>}
    IN  {o \in [1..Cardinality(over) -> over] :
            \A i, j \in 1..Cardinality(over) : i # j => o[i] # o[j]}

\* SessionManager.TrimAll, the lists it may return.
TrimAllResults(ss) == {ConcatPrefixes(ss, o) : o \in TrimOrders(ss)}

\* A Save that writes the session without trimming it first.
SaveSessionsUntrimmed(ss, key) == ss

\* SessionManager.Save, the session map after the call: s.Trim() runs first
\* and what it returns is dropped.
SaveSessions(ss, key) == [ss EXCEPT ![key] = TrimTail(ss[key])]

\* SessionManager.Save, the file map after the write of the (trimmed) session:
\* its history when os.WriteFile succeeds, the old content when it fails.
SaveFile(fs, key, h, ok) ==
    IF ok
    THEN [k \in DOMAIN fs \cup {key} |-> IF k = key THEN SessionFile(h) ELSE fs[k]]
    ELSE fs

\* What the session manager's last call did: the map before it, what Trim
\* returned for each session, and the call's own result.
OpRecord(op, key, pre, trimmed, ret, ok) ==
    [op |-> op, key |-> key, pre |-> pre, trimmed |-> trimmed, ret |-> ret, ok |-> ok]

NoTrim(ss) == [k \in DOMAIN ss |-> <<>>]
NoOp == OpRecord("none", "", <<>>, <<>>, <<>>, TRUE)

(***************************************************************************)
(* package chat: the hub                                                   *)
(***************************************************************************)
\* The zero value of Inbound and of Outbound: what a receive from a closed,
\* drained channel yields.
NoMsg == [id |-> 0, channel |-> "", chatID |-> "", content |-> ""]

Inbound(id, channel, chatID, content) ==
    [id |-> id, channel |-> channel, chatID |-> chatID, content |-> content]

\* chat.Outbound{Channel, ChatID, Content}; id labels the inbound it answers.
Outbound(id, channel, chatID, content) ==
    [id |-> id, channel |-> channel, chatID |-> chatID, content |-> content]

\* What became of the reply to a message pushed with that channel and chatID:
\* "new" (no reply yet), "out" (on Hub.Out), "lost" (dropped, Hub.Out full),
\* "telegram" or "ntfy" (placed on that queue, for chat toChat), "full"
\* (dropped, that queue full), "unrouted" (dropped, unknown channel).
Fate(channel, chatID, status) ==
    [channel |-> channel, chatID |-> chatID, status |-> status, toChat |-> ""]

\* cap(q) of each of the hub's queues.
Capacity == IF mode \in {"order", "turn"} THEN OrderBuffer ELSE Buffer

\* select { case q <- m: default: } on an open queue: the queue afterwards.
TrySend(q, m) == IF Len(q) < Capacity THEN Append(q, m) ELSE q

\* Whether that select enqueued m.
Sent(q, m) == Len(q) < Capacity

\* A send without default case: the sender waits until the queue has room.
SendReadyWhenRoom(q) == Len(q) < Capacity

\* Whether a sender at that select may proceed: it has a default case, so it
\* never waits for room.
SendReady(q) == TRUE

\* A queue that hands out the value sent last.
RecvNewest(q) == Len(q)

\* A Go channel hands out the value sent first.
RecvIndex(q) == 1

\* msg := <-q: the value received from a queue that is non-empty or closed.
Recv(q) == IF q # <<>> THEN q[RecvIndex(q)] ELSE NoMsg

\* The queue after that receive.
AfterRecv(q) ==
    IF q # <<>>
    THEN SubSeq(q, 1, RecvIndex(q) - 1) \o SubSeq(q, RecvIndex(q) + 1, Len(q))
    ELSE q

(***************************************************************************)
(* package agent: the loop's constants and pure steps                      *)
(***************************************************************************)
RememberReply == "OK, I've remembered that."
ProviderErrorReply == "Sorry, I encountered an error while processing your request."
NoResponseReply == "I've completed processing but have no response to give."
MaxIterationsReply == "Max iterations reached without final response"

\* The inbound contents of the model, as the transports deliver them.
Contents == {"hello", " remember to buy milk "}

\* strings.TrimSpace, on the contents of the model.
TrimSpace(content) ==
    IF content = " remember to buy milk " THEN "remember to buy milk" ELSE content

\* rememberRE.FindStringSubmatch(trimmed): the captured note, or "" when the
\* pattern (?i)^remember(?:\s+to)?\s+(.+)$ does not match.
RememberNote(trimmed) ==
    IF trimmed = "remember to buy milk" THEN "buy milk" ELSE ""

\* A match against the content as received, without strings.TrimSpace.
IsRememberUntrimmed(content) == RememberNote(content) # ""

\* Whether Run takes the remember short-circuit for a message of that content.
IsRemember(content) == RememberNote(TrimSpace(content)) # ""

\* The messages the transports (and other producers) push onto Hub.In.
Inbounds ==
    { [channel |-> "telegram", chatID |-> "1", content |-> "hello"],
      [channel |-> "telegram", chatID |-> "2", content |-> " remember to buy milk "],
      [channel |-> "ntfy", chatID |-> "1", content |-> "hello"],
      [channel |-> "cli", chatID |-> "1", content |-> "hello"] }

\* The session key of a message: msg.Channel + ":" + msg.ChatID.
SessionKey(m) == m.channel \o ":" \o m.chatID

\* A memory key that leaves the chat out.
MemoryKeyOfChannel(m) == m.channel

\* The persistent-memory key of a message: msg.Channel + msg.ChatID.
MemoryKey(m) == m.channel \o m.chatID

\* The ids of the n tool calls of a response, in call order.
ToolCallIds(n) == [i \in 1..n |-> "c" \o ToString(i)]

\* What provider.Chat may return: an error, a final answer, or up to n tool
\* calls (possibly none) with one of the given contents.
Responses(n, contents) ==
    { [err |-> TRUE, hasToolCalls |-> FALSE, calls |-> <<>>, content |-> ""] }
    \cup { [err |-> FALSE, hasToolCalls |-> FALSE, calls |-> <<>>, content |-> c] :
             c \in {"", "answer"} }
    \cup { [err |-> FALSE, hasToolCalls |-> TRUE, calls |-> ToolCallIds(k),
            content |-> c] : k \in 0..n, c \in contents }

\* The provider of a run: under the gateway, where Run is interleaved with the
\* proxy and the senders, its responses are the plainer ones.
ProviderResponses ==
    IF mode = "gateway" THEN Responses(MaxCalls, {""})
    ELSE Responses(MaxTurnCalls, {"", "let me check"})

\* What a.tools.Execute may return: the tool's text, or an error.
ToolOutcomes ==
    { [res |-> "", err |-> ""], [res |-> "result", err |-> ""],
      [res |-> "", err |-> "boom"] }

\* A tool message that carries the tool's text even when the call failed.
ToolContentRaw(o) == o.res

\* What a tool call leaves in res: the tool's text, or "(tool error) " + err.
ToolContent(o) == IF o.err # "" THEN "(tool error) " \o o.err ELSE o.res

ToolResults == {ToolContent(o) : o \in ToolOutcomes}

\* providers.Message{Role, Content, ToolCalls, ToolCallID}.
ProviderMessage(role, content, toolCalls, toolCallID) ==
    [role |-> role, content |-> content, toolCalls |-> toolCalls,
     toolCallID |-> toolCallID]

\* The system prompt up to the memory sections: the time, the workspace, the
\* session, the bootstrap files, the memory-tool instruction and the skills.
SystemHead == "system prompt"

\* cb.ranker == nil
NoRanker == "nil"

\* memory.MemoryItem, as far as BuildMessages reads it.
Memory(kind, text) == [kind |-> kind, text |-> text]

RECURSIVE Reverse(_)
Reverse(q) == IF q = <<>> THEN <<>> ELSE Append(Reverse(Tail(q)), Head(q))

\* cb.ranker.Rank(query, memories, topK) of the ranker of the model: the
\* memories from the last to the first, at most topK of them.
Rank(query, memories, topK) ==
    LET r == Reverse(memories)
    IN  IF topK >= 0 /\ topK < Len(r) THEN SubSeq(r, 1, topK) ELSE r

\* A builder that ranks the memories whether it has a ranker or not.
SelectAlwaysRanked(ranker, query, memories, topK) == Rank(query, memories, topK)

\* selected := memories, or the ranker's choice when there is a ranker and
\* there are memories.
SelectMemories(ranker, query, memories, topK) ==
    IF ranker # NoRanker /\ Len(memories) > 0 THEN Rank(query, memories, topK)
    ELSE memories

\* The lines "- text (kind)\n", one for each selected memory.
RECURSIVE MemoryLines(_)
MemoryLines(selected) ==
    IF selected = <<>> THEN ""
    ELSE "- " \o Head(selected).text \o " (" \o Head(selected).kind \o ")\n"
         \o MemoryLines(Tail(selected))

\* The content of the system message.
SystemPrompt(memoryContext, selected) ==
    SystemHead
    \o (IF memoryContext # "" THEN "Memory:\n" \o memoryContext ELSE "")
    \o (IF Len(selected) > 0 THEN "Relevant memories:\n" \o MemoryLines(selected) ELSE "")

\* ContextBuilder.BuildMessages: the system message, the history replayed and
\* the current message.
BuildMessagesWith(history, currentMessage, memoryContext, memories, ranker, topK) ==
    <<ProviderMessage("system",
                      SystemPrompt(memoryContext,
                                   SelectMemories(ranker, currentMessage, memories, topK)),
                      <<>>, "")>>
    \o [i \in 1..Len(history) |->
          ProviderMessage(history[i].role, history[i].content, <<>>, "")]
    \o <<ProviderMessage("user", currentMessage, <<>>, "")>>

\* BuildMessages with no memory context and no memories.
BuildMessages(history, currentMessage) ==
    BuildMessagesWith(history, currentMessage, "", <<>>, NoRanker, 0)

\* A choice that prefers the last tool result over what the loop left in
\* finalContent.
FinalReplyToolFirst(finalContent, lastToolResult) ==
    IF lastToolResult # "" THEN lastToolResult
    ELSE IF finalContent = "" THEN NoResponseReply
    ELSE finalContent

\* A choice without the fallback text.
FinalReplyNoFallback(finalContent, lastToolResult) ==
    IF finalContent = "" THEN lastToolResult ELSE finalContent

\* The reply Run emits once the tool loop has ended.
FinalReply(finalContent, lastToolResult) ==
    IF finalContent = "" /\ lastToolResult # "" THEN lastToolResult
    ELSE IF finalContent = "" THEN NoResponseReply
    ELSE finalContent

\* A reply addressed to the transport's default chat instead of the sender's.
ReplyToDefaultChat(msg, content) == Outbound(msg.id, msg.channel, "default", content)

\* chat.Outbound{Channel: msg.Channel, ChatID: msg.ChatID, Content: content}.
ReplyTo(msg, content) == Outbound(msg.id, msg.channel, msg.chatID, content)

\* A loop condition that admits one iteration too many.
LoopContinuesInclusive(iteration, max) == iteration <= max

\* Whether the tool loop's condition admits another iteration.
LoopContinues(iteration, max) == iteration < max

\* Run's position and locals. chatCalls counts provider.Chat calls and attempts
\* the enqueue attempts on Hub.Out for the message in cur; lastOut is the
\* outbound of the last attempt; pending are the tool calls of the response
\* still to execute; resps are the provider's responses to the calls of this
\* turn, execs what a.tools.Execute returned for each tool call of this turn,
\* and chatArg the messages the last provider.Chat call was given.
RunState(pc, cur, iteration, finalContent, lastToolResult, pending, chatCalls, attempts, lastOut, messages, resps, execs, chatArg) ==
    [pc |-> pc, cur |-> cur, iteration |-> iteration, finalContent |-> finalContent,
     lastToolResult |-> lastToolResult, pending |-> pending,
     chatCalls |-> chatCalls, attempts |-> attempts, lastOut |-> lastOut,
     messages |-> messages, resps |-> resps, execs |-> execs, chatArg |-> chatArg]

RunStart(pc) == RunState(pc, NoMsg, 0, "", "", <<>>, 0, 0, NoMsg, <<>>, <<>>, <<>>, <<>>)

\* ProcessDirect's position and locals, and what it returned (result, and
\* failed for a non-nil error); resps and execs as for Run.
DirectState(pc, iteration, lastToolResult, pending, chatCalls, result, failed, messages, resps, execs) ==
    [pc |-> pc, iteration |-> iteration, lastToolResult |-> lastToolResult,
     pending |-> pending, chatCalls |-> chatCalls, result |-> result,
     failed |-> failed, messages |-> messages, resps |-> resps, execs |-> execs]

DirectStart(pc) == DirectState(pc, 0, "", <<>>, 0, "", FALSE, <<>>, <<>>, <<>>)

(***************************************************************************)
(* package memory: the persistent store                                    *)
(***************************************************************************)
\* NewPersistMemory's defaults: threshold 0.87 (thresholds and similarities
\* are counted in hundredths) and topK 10.
DefaultThreshold == 87
DefaultTopK == 10

MemConf(threshold, topk) == [threshold |-> threshold, topk |-> topk]

\* A row of table history.
Row(channelID, m) == [channel_id |-> channelID, role |-> m.role, content |-> m.content]

\* The embedder on the texts of the model: vectors of norm 1, in tenths.
Embed(text) ==
    CASE text = "hello" -> <<10, 0>>
      [] text = "answer" -> <<8, 6>>
      [] text = "result" -> <<6, 8>>
      [] text = "bye" -> <<-10, 0>>
      [] OTHER -> <<0, 10>>

\* cosineSimilarityScalar on two vectors of the same dimension: the dot
\* product.
RECURSIVE CosineSimilarity(_, _)
CosineSimilarity(a, b) ==
    IF a = <<>> THEN 0
    ELSE Head(a) * Head(b) + CosineSimilarity(Tail(a), Tail(b))

\* cosine_similarity(embedding, ?) AS similarity, for a row and a query: the
\* row's embedding is that of its content.
Similarity(row, query) == CosineSimilarity(Embed(row.content), Embed(query))

\* A query without the clause AND channel_id = ?.
ChannelMatchesAny(row, channelID) == TRUE

\* The clause AND channel_id = ?, which is added only when channelID # "".
ChannelMatches(row, channelID) == channelID = "" \/ row.channel_id = channelID

\* A LIMIT that takes the argument as it comes.
EffectiveTopKRaw(topk, default) == topk

\* if topk <= 0 { topk = m.topk }.
EffectiveTopK(topk, default) == IF topk <= 0 THEN default ELSE topk

\* WHERE similarity >= ? [AND channel_id = ?]: the rows selected, by position.
Selected(rows, conf, channelID, query) ==
    {i \in 1..Len(rows) : /\ Similarity(rows[i], query) >= conf.threshold
                          /\ ChannelMatches(rows[i], channelID)}

\* ORDER BY similarity DESC: the orders the selected rows may come in (rows of
\* equal similarity in any order).
QueryOrders(rows, sel, query) ==
    {o \in [1..Cardinality(sel) -> sel] :
        /\ \A i, j \in 1..Cardinality(sel) : i # j => o[i] # o[j]
        /\ \A i, j \in 1..Cardinality(sel) :
              i < j => Similarity(rows[o[i]], query) >= Similarity(rows[o[j]], query)}

\* LIMIT ?: the first k rows; SQLite takes a negative limit as no limit.
Limit(o, k) == IF k < 0 \/ k >= Len(o) THEN o ELSE SubSeq(o, 1, k)

\* MemoryItem{Role, Text, Similarity} as rows.Scan fills it; id names the row
\* it was read from.
MemoryItem(id, row, similarity) ==
    [id |-> id, role |-> row.role, text |-> row.content, similarity |-> similarity]

\* MemoryPersist.QueryHistory once the query is embedded: the result lists it
\* may return when rows.Next delivers every row of the statement.
QueryHistory(rows, conf, channelID, query, topk) ==
    LET sel == Selected(rows, conf, channelID, query)
    IN  { [i \in 1..Len(Limit(o, EffectiveTopK(topk, conf.topk))) |->
              MemoryItem(o[i], rows[o[i]], Similarity(rows[o[i]], query))] :
          o \in QueryOrders(rows, sel, query) }

\* What a QueryHistory call was given, the table it read and what it returned
\* (failed: an error and no result; rowsErr: rows.Next stopped on an error
\* before the last row, which the loop takes for the end of the rows).
QueryRecord(rows, channelID, query, topk, failed, rowsErr, results) ==
    [called |-> TRUE, rows |-> rows, channelID |-> channelID, query |-> query,
     topk |-> topk, failed |-> failed, rowsErr |-> rowsErr, results |-> results]

NoQuery ==
    [called |-> FALSE, rows |-> <<>>, channelID |-> "", query |-> "", topk |-> 0,
     failed |-> FALSE, rowsErr |-> FALSE, results |-> <<>>]

(***************************************************************************)
(* The state after construction.                                           *)
(***************************************************************************)
\* A history of n messages as earlier turns left it: user and assistant
\* alternate, each message with a content of its own.
RECURSIVE EarlierTurns(_)
EarlierTurns(n) ==
    IF n = 0 THEN <<>>
    ELSE Append(EarlierTurns(n - 1),
                Message(IF n % 2 = 1 THEN "user" ELSE "assistant",
                        "m" \o ToString(n)))

\* The session keys of the API driver, and the content it adds.
DriverKeys == {"telegram:1", "ntfy:1"}
DriverContents == {"hello"}

\* The session files found at startup: none, a malformed one, or one that an
\* earlier Save wrote (at most MaxHistorySize messages).
StartFiles ==
    { CorruptFile, SessionFile(EarlierTurns(MaxHistorySize)) }

StartFileMaps(keys) ==
    UNION { [ks -> StartFiles] : ks \in SUBSET keys }

\* No library function has been called.
NoCall == [fn |-> "none"]

\* A goroutine that has not called StoreHistory or BatchStoreHistory yet.
WriterIdle ==
    [pc |-> "idle", fn |-> "", channelID |-> "", items |-> <<>>, tx |-> <<>>, result |-> ""]

Writers == 1..MaxWriters

\* MemoryPersist.mu unlocked (0), no call under way, no query made.
StoreStart == [mu |-> 0, w |-> [i \in Writers |-> WriterIdle], readAt |-> -1]

\* x / n
Quot(x, n) == [num |-> x, den |-> n]

\* The goroutines that call EmbedBatch, once each.
Embedders == 1..MaxEmbedders

EmbedderIdle == [pc |-> "idle", n |-> 0, batchSize |-> 0, i |-> 0, batch |-> <<>>, failed |-> FALSE, all |-> <<>>, batches |-> <<>>, result |-> <<>>, err |-> ""]

\* NewInferenceStats, with InferenceStats.mutex unlocked (0).
NewInferenceStats == [TotalInferences |-> 0, TotalTokens |-> 0, TotalErrors |-> 0, ErrorRate |-> Quot(0, 1), mutex |-> 0]

\* The engine after NewONNXEmbeddingEngine: the context not done, no call
\* under way, no snapshot taken.
EngineStart == [ctxDone |-> FALSE, stats |-> NewInferenceStats, w |-> [i \in Embedders |-> EmbedderIdle], rd |-> [pc |-> "idle", snap |-> NewInferenceStats]]

\* NewHub, NewAgentLoop (NewSessionManager, LoadAll) and the goroutines not
\* yet started.
InitBase ==
    /\ call = NoCall
    /\ store = StoreStart
    /\ engine = EngineStart
    /\ lastOp = NoOp
    /\ adds = 0
    /\ notes = <<>>
    /\ storeCalls = <<>>
    /\ lastQuery = NoQuery
    /\ hubIn = <<>>
    /\ hubOut = <<>>
    /\ telegramOut = <<>>
    /\ ntfyOut = <<>>
    /\ closed = FALSE
    /\ cancelled = FALSE
    /\ panicked = FALSE
    /\ nextId = 1
    /\ ntfySent = {}
    /\ fate = <<>>

\* The same with table history empty.
InitCommon == InitBase /\ memRows = <<>>

\* Whether a write to the workspace (os.WriteFile, OpenFile and WriteString)
\* succeeds.
WriteOutcomes == IF diskFaults THEN BOOLEAN ELSE {TRUE}

(***************************************************************************)
(* A driver of the session manager's API: any sequence of GetOrCreate,     *)
(* AddMessage, Trim, TrimAll and Save.                                     *)
(***************************************************************************)
InitSession ==
    /\ InitCommon
    /\ memConf = MemConf(DefaultThreshold, DefaultTopK)
    /\ mode = "session"
    /\ diskFaults = TRUE
    /\ memEnabled = FALSE
    /\ maxIterations = 0
    /\ files \in StartFileMaps(DriverKeys)
    /\ sessions = LoadAll(files)
    /\ run = RunStart("off")
    /\ proxy = "off"
    /\ ntfy = "off"
    /\ pd = DirectStart("off")

loopVars == <<libVars, notes, memRows, storeCalls, memConf, lastQuery, hubIn, hubOut, telegramOut, ntfyOut, closed,
              cancelled, panicked, nextId, run, proxy, ntfy, ntfySent, fate, pd>>

CallGetOrCreate(key) ==
    /\ mode = "session"
    /\ sessions' = GetOrCreate(sessions, key)
    /\ lastOp' = OpRecord("GetOrCreate", key, sessions, NoTrim(sessions), <<>>, TRUE)
    /\ UNCHANGED <<files, adds, configVars, loopVars>>

CallAddMessage(key, role, content) ==
    /\ mode = "session"
    /\ key \in DOMAIN sessions
    /\ adds < MaxAdds
    /\ adds' = adds + 1
    /\ sessions' = [sessions EXCEPT ![key] = AddMessage(@, role, content)]
    /\ lastOp' = OpRecord("AddMessage", key, sessions, NoTrim(sessions), <<>>, TRUE)
    /\ UNCHANGED <<files, configVars, loopVars>>

CallTrim(key) ==
    /\ mode = "session"
    /\ key \in DOMAIN sessions
    /\ sessions' = [sessions EXCEPT ![key] = TrimTail(@)]
    /\ lastOp' = OpRecord("Trim", key, sessions,
                          [NoTrim(sessions) EXCEPT ![key] = TrimPrefix(sessions[key])],
                          TrimPrefix(sessions[key]), TRUE)
    /\ UNCHANGED <<files, adds, configVars, loopVars>>

CallTrimAll ==
    /\ mode = "session"
    /\ \E ret \in TrimAllResults(sessions) :
         lastOp' = OpRecord("TrimAll", "", sessions,
                            [k \in DOMAIN sessions |-> TrimPrefix(sessions[k])],
                            ret, TRUE)
    /\ sessions' = TrimAllSessions(sessions)
    /\ UNCHANGED <<files, adds, configVars, loopVars>>

CallSave(key, ok) ==
    /\ mode = "session"
    /\ key \in DOMAIN sessions
    /\ sessions' = SaveSessions(sessions, key)
    /\ files' = SaveFile(files, key, sessions'[key], ok)
    /\ lastOp' = OpRecord("Save", key, sessions, NoTrim(sessions), <<>>, ok)
    /\ UNCHANGED <<adds, configVars, loopVars>>

NextSession ==
    \/ \E k \in DriverKeys : CallGetOrCreate(k)
    \/ \E k \in DriverKeys, r \in Roles, c \in DriverContents : CallAddMessage(k, r, c)
    \/ \E k \in DriverKeys : CallTrim(k)
    \/ CallTrimAll
    \/ \E k \in DriverKeys, ok \in WriteOutcomes : CallSave(k, ok)

SpecSession == InitSession /\ [][NextSession]_vars

(***************************************************************************)
(* The gateway: Run, the proxy and the senders over the hub; and the CLI's *)
(* ProcessDirect.                                                          *)
(***************************************************************************)
Init ==
    /\ InitCommon
    /\ memConf = MemConf(DefaultThreshold, DefaultTopK)
    /\ mode \in {"gateway", "cli"}
    /\ diskFaults = FALSE
    /\ memEnabled = TRUE
    /\ maxIterations \in 0..MaxIter
    /\ files = <<>>
    /\ sessions = LoadAll(files)
    /\ run = RunStart(IF mode = "gateway" THEN "select" ELSE "off")
    /\ proxy = IF mode = "gateway" THEN "select" ELSE "off"
    /\ ntfy = IF mode = "gateway" THEN "select" ELSE "off"
    /\ pd = DirectStart(IF mode = "cli" THEN "idle" ELSE "off")

\* A transport (or another producer) pushes a message onto Hub.In.
PushInbound(m) ==
    /\ ~panicked
    /\ mode \in {"gateway", "turn"}
    /\ ~closed
    /\ nextId <= MaxInbound
    /\ Len(hubIn) < Capacity
    /\ hubIn' = Append(hubIn, Inbound(nextId, m.channel, m.chatID, m.content))
    /\ nextId' = nextId + 1
    /\ fate' = Append(fate, Fate(m.channel, m.chatID, "new"))
    /\ UNCHANGED <<configVars, libVars, sessionVars, adds, notes, memRows, storeCalls, memConf, lastQuery, hubOut,
                   telegramOut, ntfyOut, closed, cancelled, panicked, run, proxy,
                   ntfy, ntfySent, pd>>

\* The process-wide context is cancelled.
Cancel ==
    /\ ~panicked
    /\ mode \in {"gateway", "proxy", "order"}
    /\ ~cancelled
    /\ cancelled' = TRUE
    /\ UNCHANGED <<configVars, libVars, sessionVars, adds, notes, memRows, storeCalls, memConf, lastQuery, hubIn, hubOut,
                   telegramOut, ntfyOut, closed, panicked, nextId, run, proxy,
                   ntfy, ntfySent, fate, pd>>

\* Hub.Close, which the owner calls on shutdown, after the cancellation.
HubClose ==
    /\ ~panicked
    /\ cancelled
    /\ ~closed
    /\ closed' = TRUE
    /\ UNCHANGED <<configVars, libVars, sessionVars, adds, notes, memRows, storeCalls, memConf, lastQuery, hubIn, hubOut,
                   telegramOut, ntfyOut, cancelled, panicked, nextId, run, proxy,
                   ntfy, ntfySent, fate, pd>>

\* A select without the case <-ctx.Done().
RunStopIgnored == FALSE /\ UNCHANGED vars

\* Run's select, case <-ctx.Done().
RunStop ==
    /\ ~panicked
    /\ run.pc = "select"
    /\ cancelled
    /\ run' = [run EXCEPT !.pc = "done"]
    /\ UNCHANGED <<configVars, libVars, sessionVars, adds, notes, memRows, storeCalls, memConf, lastQuery, hubVars,
                   cancelled, panicked, nextId, proxy, ntfy, ntfySent, fate, pd>>

\* A select without the case that receives from Hub.In.
RunNeverReceives == FALSE

\* Whether Run's select may take the case that receives from Hub.In.
RunMayReceive == run.pc = "select" /\ hubIn # <<>>

\* What QueryHistory(msg.Channel+msg.ChatID, msg.Content, 0) gives Run: nothing
\* without persistent memory or when the call fails, else the items of the
\* result, or the first of them when rows.Next stops on an error.
RunQueryResults(msg) ==
    IF ~memEnabled THEN {<<>>}
    ELSE {<<>>} \cup UNION {{SubSeq(res, 1, n) : n \in 0..Len(res)} :
                              res \in QueryHistory(memRows, memConf, MemoryKey(msg), msg.content, 0)}

\* memories = append(memories, MemoryItem{..., Kind: "Persistent"})
RunMemories(items) == [i \in 1..Len(items) |-> Memory("Persistent", items[i].text)]

\* GetMemoryContext: today's notes, a line each (no long-term memory file).
RECURSIVE MemoryContext(_)
MemoryContext(ns) == IF ns = <<>> THEN "" ELSE "[now] " \o Head(ns) \o "\n" \o MemoryContext(Tail(ns))

\* Run's select, case msg, ok := <-a.hub.In with ok: up to the remember reply,
\* or up to the first provider call: the session, the memory context, the
\* query of persistent memory and BuildMessages.
RunReceive ==
    /\ ~panicked
    /\ RunMayReceive
    /\ LET msg == Recv(hubIn)
       IN  /\ hubIn' = AfterRecv(hubIn)
           /\ IF IsRemember(msg.content)
              THEN /\ run' = [RunStart("remember") EXCEPT !.cur = msg]
                   /\ UNCHANGED <<sessionVars, lastQuery>>
              ELSE /\ sessions' = GetOrCreate(sessions, SessionKey(msg))
                   /\ \E items \in RunQueryResults(msg) :
                        /\ lastQuery' = IF memEnabled
                                        THEN QueryRecord(memRows, MemoryKey(msg), msg.content, 0, FALSE, FALSE, items)
                                        ELSE lastQuery
                        /\ run' = [RunStart("chat") EXCEPT
                                     !.cur = msg,
                                     !.messages =
                                         BuildMessagesWith(sessions'[SessionKey(msg)], msg.content,
                                                           MemoryContext(notes), RunMemories(items), NoRanker, 0)]
                   /\ lastOp' = OpRecord("GetOrCreate", SessionKey(msg), sessions,
                                         NoTrim(sessions), <<>>, TRUE)
                   /\ UNCHANGED files
    /\ UNCHANGED <<configVars, libVars, adds, notes, memRows, storeCalls, memConf, hubOut, telegramOut, ntfyOut,
                   closed, cancelled, panicked, nextId, proxy, ntfy, ntfySent,
                   fate, pd>>

\* Run's select, case msg, ok := <-a.hub.In with !ok: the queue is closed and
\* drained.
RunInboundClosed ==
    /\ ~panicked
    /\ run.pc = "select"
    /\ closed
    /\ hubIn = <<>>
    /\ run' = [run EXCEPT !.pc = "done"]
    /\ UNCHANGED <<configVars, libVars, sessionVars, adds, notes, memRows, storeCalls, memConf, lastQuery, hubVars,
                   cancelled, panicked, nextId, proxy, ntfy, ntfySent, fate, pd>>

\* Run's select, default: nothing is ready, sleep 100 ms.
RunIdle ==
    /\ ~panicked
    /\ run.pc = "select"
    /\ ~cancelled
    /\ ~closed
    /\ hubIn = <<>>
    /\ UNCHANGED vars

\* The session map after Run has recorded a turn and saved the session:
\* GetOrCreate, AddMessage twice, TrimAll when trimAll, then Save's own Trim.
TurnSessions(ss, key, user, assistant, trimAll) ==
    LET got == GetOrCreate(ss, key)
        added == [got EXCEPT
                    ![key] = AddMessage(AddMessage(@, "user", user),
                                        "assistant", assistant)]
    IN  SaveSessions(IF trimAll THEN TrimAllSessions(added) ELSE added, key)

\* The map TrimAll sees: the turn recorded, nothing trimmed yet.
TurnAdded(ss, key, user, assistant) ==
    LET got == GetOrCreate(ss, key)
    IN  [got EXCEPT ![key] = AddMessage(AddMessage(@, "user", user),
                                        "assistant", assistant)]

\* Run's enqueue of the reply on Hub.Out, and what it does to the reply: a send
\* on a closed queue panics; otherwise the reply is queued, or dropped when the
\* queue is full. The iteration ends here, and with it its locals.
RunEnqueue(out) ==
    /\ SendReady(hubOut)
    /\ IF closed
       THEN /\ panicked' = TRUE
            /\ run' = [run EXCEPT !.pc = "panic", !.attempts = @ + 1, !.lastOut = out]
            /\ UNCHANGED <<hubOut, fate>>
       ELSE /\ hubOut' = TrySend(hubOut, out)
            /\ fate' = [fate EXCEPT
                          ![out.id].status = IF Sent(hubOut, out) THEN "out" ELSE "lost"]
            /\ run' = [RunStart("select") EXCEPT
                         !.cur = run.cur, !.attempts = run.attempts + 1, !.lastOut = out]
            /\ UNCHANGED panicked

\* The remember short-circuit: AppendToday, the reply, the turn recorded and
\* saved. A panic at the enqueue leaves the session as it was.
RunRemember ==
    /\ ~panicked
    /\ run.pc = "remember"
    /\ LET msg == run.cur
           key == SessionKey(msg)
       IN  /\ \E appended \in WriteOutcomes :
                notes' = IF appended
                         THEN Append(notes, RememberNote(TrimSpace(msg.content)))
                         ELSE notes
           /\ RunEnqueue(ReplyTo(msg, RememberReply))
           /\ IF closed
              THEN UNCHANGED sessionVars
              ELSE \E ok \in WriteOutcomes :
                     /\ sessions' = TurnSessions(sessions, key, msg.content,
                                                 RememberReply, FALSE)
                     /\ files' = SaveFile(files, key, sessions'[key], ok)
                     /\ lastOp' = OpRecord("Save", key,
                                           TurnAdded(sessions, key, msg.content,
                                                     RememberReply),
                                           NoTrim(sessions'), <<>>, ok)
    /\ UNCHANGED <<configVars, libVars, adds, memRows, storeCalls, memConf, lastQuery, hubIn, telegramOut, ntfyOut, closed,
                   cancelled, nextId, proxy, ntfy, ntfySent, pd>>

\* What the loop over TrimAll's result may add to table history: a row for
\* each message whose role is not "user", unless its StoreHistory fails.
RECURSIVE StoredRows(_, _)
StoredRows(msgs, channelID) ==
    IF msgs = <<>> THEN {<<>>}
    ELSE LET rest == StoredRows(Tail(msgs), channelID)
         IN  IF Head(msgs).role = "user" THEN rest
             ELSE rest \cup {<<Row(channelID, Head(msgs))>> \o r : r \in rest}

\* The StoreHistory calls of the loop over TrimAll's result: one for each
\* message whose role is not "user", in order.
RECURSIVE StoreCalls(_, _)
StoreCalls(msgs, channelID) ==
    IF msgs = <<>> THEN <<>>
    ELSE IF Head(msgs).role = "user" THEN StoreCalls(Tail(msgs), channelID)
    ELSE <<Row(channelID, Head(msgs))>> \o StoreCalls(Tail(msgs), channelID)

\* One iteration of Run's tool loop up to the provider's answer.
RunChat ==
    /\ ~panicked
    /\ run.pc = "chat"
    /\ LoopContinues(run.iteration, maxIterations)
    /\ \E resp \in ProviderResponses :
         run' = [run EXCEPT
                   !.iteration = @ + 1,
                   !.chatCalls = @ + 1,
                   !.finalContent = IF resp.err THEN ProviderErrorReply
                                    ELSE IF resp.hasToolCalls THEN @
                                    ELSE resp.content,
                   !.resps = Append(@, resp),
                   !.chatArg = run.messages,
                   !.messages = IF ~resp.err /\ resp.hasToolCalls
                                THEN Append(@, ProviderMessage("assistant",
                                                resp.content, resp.calls, ""))
                                ELSE @,
                   !.pending = IF ~resp.err /\ resp.hasToolCalls THEN resp.calls
                               ELSE <<>>,
                   !.pc = IF resp.err \/ ~resp.hasToolCalls THEN "finish"
                          ELSE IF resp.calls = <<>> THEN "chat"
                          ELSE "tools"]
    /\ UNCHANGED <<configVars, libVars, sessionVars, adds, notes, memRows, storeCalls, memConf, lastQuery, hubVars,
                   cancelled, panicked, nextId, proxy, ntfy, ntfySent, fate, pd>>

\* One tool call of the response: a.tools.Execute and the tool message.
RunTool ==
    /\ ~panicked
    /\ run.pc = "tools"
    /\ \E o \in ToolOutcomes :
         run' = [run EXCEPT
                   !.lastToolResult = ToolContent(o),
                   !.execs = Append(@, o),
                   !.messages = Append(@, ProviderMessage("tool", ToolContent(o),
                                                          <<>>, Head(run.pending))),
                   !.pending = Tail(@),
                   !.pc = IF Len(run.pending) = 1 THEN "chat" ELSE "tools"]
    /\ UNCHANGED <<configVars, libVars, sessionVars, adds, notes, memRows, storeCalls, memConf, lastQuery, hubVars,
                   cancelled, panicked, nextId, proxy, ntfy, ntfySent, fate, pd>>

\* After the tool loop: the reply chosen, the turn recorded, TrimAll and the
\* archival of what it trimmed, Save, and the enqueue on Hub.Out.
RunFinish ==
    /\ ~panicked
    /\ \/ run.pc = "finish"
       \/ run.pc = "chat" /\ ~LoopContinues(run.iteration, maxIterations)
    /\ LET msg == run.cur
           key == SessionKey(msg)
           reply == FinalReply(run.finalContent, run.lastToolResult)
           added == TurnAdded(sessions, key, msg.content, reply)
       IN  /\ \E ret \in TrimAllResults(added) :
                IF memEnabled
                THEN /\ storeCalls' = storeCalls \o StoreCalls(ret, MemoryKey(msg))
                     /\ \E rows \in StoredRows(ret, MemoryKey(msg)) :
                          memRows' = memRows \o rows
                ELSE UNCHANGED <<memRows, storeCalls>>
           /\ sessions' = TurnSessions(sessions, key, msg.content, reply, TRUE)
           /\ \E ok \in WriteOutcomes :
                /\ files' = SaveFile(files, key, sessions'[key], ok)
                /\ lastOp' = OpRecord("Save", key, TrimAllSessions(added),
                                      NoTrim(added), <<>>, ok)
           /\ RunEnqueue(ReplyTo(msg, reply))
    /\ UNCHANGED <<configVars, libVars, adds, notes, memConf, lastQuery, hubIn, telegramOut,
                   ntfyOut, closed, cancelled, nextId, proxy, ntfy, ntfySent, pd>>

(***************************************************************************)
(* package channels: the proxy and the senders                             *)
(***************************************************************************)
\* A switch whose ntfy case sends to the telegram queue.
RouteAllTelegram(channel) ==
    IF channel \in {"telegram", "ntfy"} THEN "telegram" ELSE "none"

\* A switch without the ntfy case.
RouteTelegramOnly(channel) == IF channel = "telegram" THEN "telegram" ELSE "none"

\* StartProxy's switch on msg.Channel: the queue it selects, or "none".
Route(channel) ==
    IF channel = "telegram" THEN "telegram"
    ELSE IF channel = "ntfy" THEN "ntfy"
    ELSE "none"

\* The per-transport queue of that name.
TransportQueue(q) == IF q = "telegram" THEN telegramOut ELSE ntfyOut

\* The proxy's select, case <-ctx.Done().
ProxyStop ==
    /\ ~panicked
    /\ proxy = "select"
    /\ cancelled
    /\ proxy' = "done"
    /\ UNCHANGED <<configVars, libVars, sessionVars, adds, notes, memRows, storeCalls, memConf, lastQuery, hubVars,
                   cancelled, panicked, nextId, run, ntfy, ntfySent, fate, pd>>

\* Whether the proxy's select may take the case that receives from Hub.Out.
ProxyMayReceive == proxy = "select" /\ (hubOut # <<>> \/ closed)

\* The proxy's select, case msg := <-hub.Out, and the dispatch of msg: to the
\* queue its channel selects (dropped when that queue is full, a panic when it
\* is closed), or logged and dropped when the channel is unknown.
ProxyForward ==
    /\ ~panicked
    /\ ProxyMayReceive
    /\ LET msg == Recv(hubOut)
           q == Route(msg.channel)
       IN  /\ hubOut' = AfterRecv(hubOut)
           /\ IF q = "none"
              THEN /\ fate' = IF msg.id \in DOMAIN fate
                              THEN [fate EXCEPT ![msg.id].status = "unrouted"]
                              ELSE fate
                   /\ UNCHANGED <<telegramOut, ntfyOut, panicked, proxy>>
              ELSE /\ SendReady(TransportQueue(q))
                   /\ IF closed
                      THEN /\ panicked' = TRUE
                           /\ proxy' = "panic"
                           /\ UNCHANGED <<telegramOut, ntfyOut, fate>>
                      ELSE /\ telegramOut' = IF q = "telegram"
                                             THEN TrySend(telegramOut, msg)
                                             ELSE telegramOut
                           /\ ntfyOut' = IF q = "ntfy" THEN TrySend(ntfyOut, msg)
                                         ELSE ntfyOut
                           /\ fate' = [fate EXCEPT
                                         ![msg.id].status =
                                             IF Sent(TransportQueue(q), msg)
                                             THEN q ELSE "full",
                                         ![msg.id].toChat = msg.chatID]
                           /\ UNCHANGED <<panicked, proxy>>
    /\ UNCHANGED <<configVars, libVars, sessionVars, adds, notes, memRows, storeCalls, memConf, lastQuery, hubIn, closed,
                   cancelled, nextId, run, ntfy, ntfySent, pd>>

\* The ntfy sender's select, case <-ctx.Done().
NtfyStop ==
    /\ ~panicked
    /\ ntfy = "select"
    /\ cancelled
    /\ ntfy' = "done"
    /\ UNCHANGED <<configVars, libVars, sessionVars, adds, notes, memRows, storeCalls, memConf, lastQuery, hubVars,
                   cancelled, panicked, nextId, run, proxy, ntfySent, fate, pd>>

\* The ntfy sender's select, case msg := <-hub.NtfyOut, and nc.Send of msg
\* (its error is logged).
NtfySend ==
    /\ ~panicked
    /\ ntfy = "select"
    /\ ntfyOut # <<>> \/ closed
    /\ ntfySent' = ntfySent \cup {Recv(ntfyOut).id}
    /\ ntfyOut' = AfterRecv(ntfyOut)
    /\ UNCHANGED <<configVars, libVars, sessionVars, adds, notes, memRows, storeCalls, memConf, lastQuery, hubIn, hubOut,
                   telegramOut, closed, cancelled, panicked, nextId, run, proxy,
                   ntfy, fate, pd>>

\* The telegram adapter pulls a message from Hub.TelegramOut.
TelegramTake ==
    /\ ~panicked
    /\ telegramOut # <<>>
    /\ telegramOut' = Tail(telegramOut)
    /\ UNCHANGED <<configVars, libVars, sessionVars, adds, notes, memRows, storeCalls, memConf, lastQuery, hubIn, hubOut,
                   ntfyOut, closed, cancelled, panicked, nextId, run, proxy, ntfy,
                   ntfySent, fate, pd>>

(***************************************************************************)
(* ProcessDirect                                                           *)
(***************************************************************************)
\* The content the CLI passes to ProcessDirect.
DirectContent == "hello"

directFrame == <<configVars, libVars, sessionVars, adds, notes, memRows, storeCalls, memConf,
                 lastQuery, hubVars, cancelled,
                 panicked, nextId, run, proxy, ntfy, ntfySent, fate>>

\* The variables ProcessDirect's steps leave alone, sessions apart.
directRest == <<configVars, libVars, files, lastOp, adds, notes, memRows, storeCalls, memConf,
                lastQuery, hubVars,
                cancelled, panicked, nextId, run, proxy, ntfy, ntfySent, fate>>

\* A ProcessDirect that records its turn in the session cli:direct, as Run
\* does for a message of that chat.
DirectSessionsRecorded(ss, content, reply) ==
    TurnSessions(ss, "cli:direct", content, reply, FALSE)

\* The session map when ProcessDirect returns: it builds its messages from a
\* nil history and calls nothing of the session manager.
DirectSessions(ss, content, reply) == ss

\* ProcessDirect is called: context and messages built, the loop entered.
DirectCall ==
    /\ ~panicked
    /\ pd.pc \in {"idle", "done"}
    /\ pd' = [DirectStart("chat") EXCEPT
                !.messages = BuildMessages(<<>>, DirectContent)]
    /\ UNCHANGED directFrame

\* One iteration of ProcessDirect's loop up to the provider's answer: an error
\* and a response without tool calls return.
DirectChat ==
    /\ ~panicked
    /\ pd.pc = "chat"
    /\ LoopContinues(pd.iteration, maxIterations)
    /\ \E resp \in ProviderResponses :
         pd' = [pd EXCEPT
                  !.iteration = @ + 1,
                  !.chatCalls = @ + 1,
                  !.failed = resp.err,
                  !.result = IF resp.err \/ resp.hasToolCalls THEN ""
                             ELSE IF resp.content # "" THEN resp.content
                             ELSE IF pd.lastToolResult # "" THEN pd.lastToolResult
                             ELSE resp.content,
                  !.resps = Append(@, resp),
                  !.messages = IF ~resp.err /\ resp.hasToolCalls
                               THEN Append(@, ProviderMessage("assistant",
                                               resp.content, resp.calls, ""))
                               ELSE @,
                  !.pending = IF ~resp.err /\ resp.hasToolCalls THEN resp.calls
                              ELSE <<>>,
                  !.pc = IF resp.err \/ ~resp.hasToolCalls THEN "done"
                         ELSE IF resp.calls = <<>> THEN "chat"
                         ELSE "tools"]
    /\ sessions' = IF pd'.pc = "done"
                   THEN DirectSessions(sessions, DirectContent, pd'.result)
                   ELSE sessions
    /\ UNCHANGED directRest

\* One tool call of the response.
DirectTool ==
    /\ ~panicked
    /\ pd.pc = "tools"
    /\ \E o \in ToolOutcomes :
         pd' = [pd EXCEPT
                  !.lastToolResult = ToolContent(o),
                  !.execs = Append(@, o),
                  !.messages = Append(@, ProviderMessage("tool", ToolContent(o),
                                                         <<>>, Head(pd.pending))),
                  !.pending = Tail(@),
                  !.pc = IF Len(pd.pending) = 1 THEN "chat" ELSE "tools"]
    /\ UNCHANGED directFrame

\* The loop ran out of iterations.
DirectExhausted ==
    /\ ~panicked
    /\ pd.pc = "chat"
    /\ ~LoopContinues(pd.iteration, maxIterations)
    /\ pd' = [pd EXCEPT !.pc = "done", !.result = MaxIterationsReply]
    /\ sessions' = DirectSessions(sessions, DirectContent, pd'.result)
    /\ UNCHANGED directRest

\* The outbound messages that producers other than Run push onto Hub.Out.
Outbounds ==
    { [channel |-> c, chatID |-> "1", content |-> "hello"] :
        c \in {"telegram", "ntfy", "cli"} }

\* A hub with its proxy and senders, and no agent loop: NewHub, StartProxy,
\* StartNtfy.
InitProxy ==
    /\ InitCommon
    /\ memConf = MemConf(DefaultThreshold, DefaultTopK)
    /\ mode = "proxy"
    /\ diskFaults = FALSE
    /\ memEnabled = FALSE
    /\ maxIterations = 0
    /\ files = <<>>
    /\ sessions = LoadAll(files)
    /\ run = RunStart("off")
    /\ proxy = "select"
    /\ ntfy = "select"
    /\ pd = DirectStart("off")

\* A producer enqueues a message on Hub.Out.
PushOutbound(m) ==
    /\ ~panicked
    /\ mode \in {"proxy", "order"}
    /\ ~closed
    /\ nextId <= MaxOutbound
    /\ Len(hubOut) < Capacity
    /\ hubOut' = Append(hubOut, Outbound(nextId, m.channel, m.chatID, m.content))
    /\ nextId' = nextId + 1
    /\ fate' = Append(fate, Fate(m.channel, m.chatID, "out"))
    /\ UNCHANGED <<configVars, libVars, sessionVars, adds, notes, memRows, storeCalls, memConf, lastQuery, hubIn,
                   telegramOut, ntfyOut, closed, cancelled, panicked, run, proxy,
                   ntfy, ntfySent, pd>>

NextProxy ==
    \/ \E m \in Outbounds : PushOutbound(m)
    \/ Cancel
    \/ HubClose
    \/ ProxyStop
    \/ ProxyForward
    \/ NtfyStop
    \/ NtfySend
    \/ TelegramTake

SpecProxy == InitProxy /\ [][NextProxy]_vars

\* The same hub, proxy and senders with queues of OrderBuffer messages.
InitOrder ==
    /\ InitCommon
    /\ memConf = MemConf(DefaultThreshold, DefaultTopK)
    /\ mode = "order"
    /\ diskFaults = FALSE
    /\ memEnabled = FALSE
    /\ maxIterations = 0
    /\ files = <<>>
    /\ sessions = LoadAll(files)
    /\ run = RunStart("off")
    /\ proxy = "select"
    /\ ntfy = "select"
    /\ pd = DirectStart("off")

SpecOrder == InitOrder /\ [][NextProxy]_vars

\* The agent loop alone, over sessions that are new or that earlier turns
\* filled up to the limit, with or without persistent memory, on a workspace
\* whose writes may fail: NewAgentLoop and Run, two telegram chats writing,
\* nobody consuming Hub.Out.
TurnInbounds == {m \in Inbounds : m.channel = "telegram"}

InitTurn ==
    /\ InitCommon
    /\ memConf = MemConf(DefaultThreshold, DefaultTopK)
    /\ mode = "turn"
    /\ diskFaults = TRUE
    /\ memEnabled \in BOOLEAN
    /\ maxIterations \in 0..MaxIter
    /\ files \in { <<>>,
                   [k \in {SessionKey(m) : m \in TurnInbounds} |->
                       SessionFile(EarlierTurns(MaxHistorySize))] }
    /\ sessions = LoadAll(files)
    /\ run = RunStart("select")
    /\ proxy = "off"
    /\ ntfy = "off"
    /\ pd = DirectStart("off")

NextTurn ==
    \/ \E m \in TurnInbounds : PushInbound(m)
    \/ RunReceive
    \/ RunIdle
    \/ RunRemember
    \/ RunChat
    \/ RunTool
    \/ RunFinish

SpecTurn == InitTurn /\ [][NextTurn]_vars

\* Four chats on two transports, each with a full session, and a table that
\* earlier turns of three of them have left rows in, all of them close enough
\* to the message "hello" to be retrieved.
IsolationInbounds ==
    {[channel |-> c, chatID |-> i, content |-> "hello"] : c \in {"telegram", "ntfy"}, i \in {"1", "2"}}

InitIsolation ==
    /\ InitBase
    /\ memRows = <<Row("telegram1", Message("assistant", "hello")), Row("ntfy1", Message("assistant", "hello")), Row("telegram2", Message("tool", "hello"))>>
    /\ memConf = MemConf(DefaultThreshold, DefaultTopK)
    /\ mode = "turn"
    /\ diskFaults = FALSE
    /\ memEnabled = TRUE
    /\ maxIterations = 1
    /\ files = [k \in {SessionKey(m) : m \in IsolationInbounds} |-> SessionFile(EarlierTurns(MaxHistorySize))]
    /\ sessions = LoadAll(files)
    /\ run = RunStart("select")
    /\ proxy = "off"
    /\ ntfy = "off"
    /\ pd = DirectStart("off")

NextIsolation ==
    \/ \E m \in IsolationInbounds : PushInbound(m)
    \/ RunReceive
    \/ RunIdle
    \/ RunChat
    \/ RunTool
    \/ RunFinish

SpecIsolation == InitIsolation /\ [][NextIsolation]_vars

(***************************************************************************)
(* A caller of StoreHistory and QueryHistory.                              *)
(***************************************************************************)
\* The rows the caller stores: replies archived for two chats.
StoredRowChoices ==
    { Row(c, Message("assistant", t)) :
        c \in {"telegram1", "ntfy1"}, t \in {"hello", "answer", "result"} }

\* The arguments of the calls.
QueryChannels == {"", "telegram1", "ntfy1"}
QueryTexts == {"hello", "answer"}
QueryTopKs == {-1, 0, 1, 2}

InitQuery ==
    /\ InitCommon
    /\ mode = "query"
    /\ diskFaults = FALSE
    /\ memEnabled = TRUE
    /\ maxIterations = 0
    /\ memConf \in { MemConf(t, k) : t \in {60, DefaultThreshold},
                                      k \in {2, DefaultTopK} }
    /\ files = <<>>
    /\ sessions = LoadAll(files)
    /\ run = RunStart("off")
    /\ proxy = "off"
    /\ ntfy = "off"
    /\ pd = DirectStart("off")

\* StoreHistory(channelID, role, content, timestamp): one row inserted and
\* committed, or an error (embedding, transaction) and no row. The caller
\* stores first and queries afterwards (a query changes nothing in the table).
CallStoreHistory(row, ok) ==
    /\ mode = "query"
    /\ Len(storeCalls) < MaxRows
    /\ ~lastQuery.called
    /\ storeCalls' = Append(storeCalls, row)
    /\ memRows' = IF ok THEN Append(memRows, row) ELSE memRows
    /\ UNCHANGED <<configVars, libVars, sessionVars, adds, notes, memConf, lastQuery,
                   hubVars, cancelled, panicked, nextId, run, proxy, ntfy,
                   ntfySent, fate, pd>>

\* QueryHistory(channelID, query, topk): the embedding of the query may fail,
\* and then the call returns an error.
CallQueryHistory(channelID, query, topk) ==
    /\ mode = "query"
    /\ \/ lastQuery' = QueryRecord(memRows, channelID, query, topk, TRUE, FALSE, <<>>)
       \/ \E res \in QueryHistory(memRows, memConf, channelID, query, topk) :
             \E n \in 0..Len(res) :
                lastQuery' = QueryRecord(memRows, channelID, query, topk, FALSE,
                                         n < Len(res), SubSeq(res, 1, n))
    /\ UNCHANGED <<configVars, libVars, sessionVars, adds, notes, memRows, storeCalls,
                   memConf, hubVars, cancelled, panicked, nextId, run, proxy,
                   ntfy, ntfySent, fate, pd>>

NextQuery ==
    \/ \E row \in StoredRowChoices, ok \in WriteOutcomes : CallStoreHistory(row, ok)
    \/ \E c \in QueryChannels, q \in QueryTexts, k \in QueryTopKs :
          CallQueryHistory(c, q, k)

SpecQuery == InitQuery /\ [][NextQuery]_vars

(***************************************************************************)
(* package memory: the SQL functions cosine_similarity and cosine_distance *)
(***************************************************************************)
\* float32 and float64 values: finite ones (integers here), the infinities and
\* NaN, with IEEE 754 multiplication and addition.
Fin(n) == [k |-> "fin", v |-> n]
Inf(sign) == [k |-> "inf", v |-> sign]
NaN == [k |-> "nan", v |-> 0]

Sign(x) == IF x.v < 0 THEN -1 ELSE 1

FMul(x, y) ==
    IF x.k = "nan" \/ y.k = "nan" THEN NaN
    ELSE IF x.k = "inf" \/ y.k = "inf"
         THEN IF x = Fin(0) \/ y = Fin(0) THEN NaN ELSE Inf(Sign(x) * Sign(y))
         ELSE Fin(x.v * y.v)

FAdd(x, y) ==
    IF x.k = "nan" \/ y.k = "nan" THEN NaN
    ELSE IF x.k = "inf" /\ y.k = "inf" THEN (IF x = y THEN x ELSE NaN)
    ELSE IF x.k = "inf" THEN x
    ELSE IF y.k = "inf" THEN y
    ELSE Fin(x.v + y.v)

FNeg(x) == IF x.k = "nan" THEN NaN ELSE [x EXCEPT !.v = 0 - x.v]

FSub(x, y) == FAdd(x, FNeg(y))

\* A driver.Value: a BLOB of 4 * Len(floats) + rest bytes (rest: the bytes
\* after the last whole float32), or a value of another type.
Blob(floats, rest) == [blob |-> TRUE, floats |-> floats, rest |-> rest]
NotBlob == [blob |-> FALSE, floats |-> <<>>, rest |-> 0]

\* len(blob)
BlobLen(b) == 4 * Len(b.floats) + b.rest

\* What a scalar function returns: a value, or an error.
ScalarOk(v) == [err |-> "", val |-> v]
ScalarErr(msg) == [err |-> msg, val |-> Fin(0)]

\* A padding that adds nothing: vectors of different dimensions stay so.
PadNone(v, n) == v

\* append(blob, make([]byte, paddedLength-len(blob))...) followed by
\* bytesToFloats: the vector with zeros up to n values.
PadZero(v, n) == [i \in 1..n |-> IF i <= Len(v) THEN v[i] ELSE Fin(0)]

\* var dot float64; for i := range qVec { dot += float64(qVec[i] * rowVec[i]) }
RECURSIVE DotFrom(_, _, _)
DotFrom(dot, q, r) ==
    IF q = <<>> THEN dot
    ELSE DotFrom(FAdd(dot, FMul(Head(q), Head(r))), Tail(q), Tail(r))

MaxOf(m, n) == IF m >= n THEN m ELSE n

cosineSimilarityScalar(a, b) ==
    IF ~a.blob \/ ~b.blob THEN ScalarErr("both arguments must be BLOB")
    ELSE IF BlobLen(a) % 4 # 0 \/ BlobLen(b) % 4 # 0
         THEN ScalarErr("blobs must contain whole float32 values")
    ELSE LET n == MaxOf(Len(a.floats), Len(b.floats))
             q == PadZero(a.floats, n)
             r == PadZero(b.floats, n)
         IN  IF Len(q) = 0 \/ Len(r) = 0 THEN ScalarOk(Fin(0))
             ELSE IF Len(q) # Len(r) THEN ScalarErr("vector dimension mismatch")
             ELSE ScalarOk(DotFrom(Fin(0), q, r))

cosineDistanceScalar(a, b) ==
    IF ~a.blob \/ ~b.blob THEN ScalarErr("both arguments must be BLOB")
    ELSE IF BlobLen(a) = 0 \/ BlobLen(b) = 0 THEN ScalarOk(Fin(1))
    ELSE IF BlobLen(a) % 4 # 0 \/ BlobLen(b) % 4 # 0
         THEN ScalarErr("BLOB length must be multiple of 4 (float32)")
    ELSE LET n == MaxOf(Len(a.floats), Len(b.floats))
             q == PadZero(a.floats, n)
             r == PadZero(b.floats, n)
         IN  IF Len(q) = 0 \/ Len(r) = 0 THEN ScalarOk(Fin(1))
             ELSE IF Len(q) # Len(r) THEN ScalarErr("vector dimension mismatch")
             ELSE ScalarOk(FSub(Fin(1), DotFrom(Fin(0), q, r)))

(***************************************************************************)
(* A statement that evaluates cosine_similarity(a, b) and then             *)
(* cosine_distance(a, b) on the same pair of values.                       *)
(***************************************************************************)
Floats == {Fin(-1), Fin(0), Fin(2), Inf(1), NaN}

RECURSIVE Vectors(_)
Vectors(n) ==
    IF n = 0 THEN {<<>>}
    ELSE LET shorter == Vectors(n - 1)
         IN  shorter \cup {Append(v, x) : v \in {w \in shorter : Len(w) = n - 1}, x \in Floats}

ScalarArgs == {NotBlob} \cup {Blob(v, rest) : v \in Vectors(MaxDim), rest \in {0, 3}}

NotCalled == ScalarErr("not called")

ScalarCall(a, b, sim, dist) == [fn |-> "cosine", a |-> a, b |-> b, sim |-> sim, dist |-> dist]

InitScalar ==
    /\ InitCommon
    /\ mode = "scalar"
    /\ diskFaults = FALSE
    /\ memEnabled = TRUE
    /\ maxIterations = 0
    /\ memConf = MemConf(DefaultThreshold, DefaultTopK)
    /\ files = <<>>
    /\ sessions = LoadAll(files)
    /\ run = RunStart("off")
    /\ proxy = "off"
    /\ ntfy = "off"
    /\ pd = DirectStart("off")

restVars == <<configVars, sessionVars, adds, notes, memRows, storeCalls, memConf, lastQuery, hubVars, cancelled, panicked, nextId, run, proxy, ntfy, ntfySent, fate, pd>>

CallCosineSimilarity(a, b) ==
    /\ mode = "scalar"
    /\ ~panicked
    /\ call = NoCall
    /\ call' = ScalarCall(a, b, cosineSimilarityScalar(a, b), NotCalled)
    /\ UNCHANGED <<restVars, store, engine>>

CallCosineDistance ==
    /\ mode = "scalar"
    /\ ~panicked
    /\ call.fn = "cosine"
    /\ call.dist = NotCalled
    /\ call' = [call EXCEPT !.dist = cosineDistanceScalar(call.a, call.b)]
    /\ UNCHANGED <<restVars, store, engine>>

NextScalar ==
    \/ \E a, b \in ScalarArgs : CallCosineSimilarity(a, b)
    \/ CallCosineDistance

SpecScalar == InitScalar /\ [][NextScalar]_vars

(***************************************************************************)
(* package memory: StoreHistory and BatchStoreHistory, step by step, called *)
(* by concurrent goroutines, and QueryHistory called meanwhile.            *)
(***************************************************************************)
\* A store without transaction, whose inserts stay when the call fails.
RollbackKeeps(rows, tx) == rows \o tx

\* tx.Rollback: the table it leaves.
Rollback(rows, tx) == rows

\* tx.Commit: the table it leaves.
Commit(rows, tx, ok) == IF ok THEN rows \o tx ELSE rows

\* What the writers store.
StoreChannels == {"telegram1", "ntfy1"}
StoreItems == {Message("assistant", "hello"), Message("tool", "result")}
StoreBatches == {<<>>} \cup UNION {[1..n -> StoreItems] : n \in 1..MaxItems}

InitStore ==
    /\ InitCommon
    /\ mode = "store"
    /\ diskFaults = TRUE
    /\ memEnabled = TRUE
    /\ maxIterations = 0
    /\ memConf = MemConf(DefaultThreshold, DefaultTopK)
    /\ files = <<>>
    /\ sessions = LoadAll(files)
    /\ run = RunStart("off")
    /\ proxy = "off"
    /\ ntfy = "off"
    /\ pd = DirectStart("off")

storeRest == <<configVars, sessionVars, adds, notes, storeCalls, memConf, hubVars, cancelled, panicked, nextId, run, proxy, ntfy, ntfySent, fate, pd, call, engine>>

\* The call of writer w returns err (nil when ok); the deferred Unlock runs
\* when the writer holds the mutex.
WriterReturns(w, ok) ==
    [store EXCEPT !.w[w].pc = "returned",
                  !.w[w].result = IF ok THEN "nil" ELSE "err",
                  !.mu = IF store.mu = w THEN 0 ELSE store.mu]

WriterAt(w, pc) == store.w[w].pc = pc

\* StoreHistory(channelID, role, content, timestamp) up to m.mu.Lock: the
\* content is embedded, and a failure to embed returns an error.
StoreHistoryCall(w, channelID, m, ok) ==
    /\ mode = "store"
    /\ ~panicked
    /\ WriterAt(w, "idle")
    /\ LET called == [store EXCEPT !.w[w].fn = "StoreHistory",
                                   !.w[w].channelID = channelID,
                                   !.w[w].items = <<m>>]
       IN  store' = IF ok THEN [called EXCEPT !.w[w].pc = "lock"]
                     ELSE [called EXCEPT !.w[w].pc = "returned", !.w[w].result = "err"]
    /\ UNCHANGED <<storeRest, memRows, lastQuery>>

\* BatchStoreHistory(channelID, items) up to m.mu.Lock: nil for no items.
BatchStoreHistoryCall(w, channelID, items) ==
    /\ mode = "store"
    /\ ~panicked
    /\ WriterAt(w, "idle")
    /\ LET called == [store EXCEPT !.w[w].fn = "BatchStoreHistory",
                                   !.w[w].channelID = channelID,
                                   !.w[w].items = items]
       IN  store' = IF Len(items) = 0
                     THEN [called EXCEPT !.w[w].pc = "returned", !.w[w].result = "nil"]
                     ELSE [called EXCEPT !.w[w].pc = "lock"]
    /\ UNCHANGED <<storeRest, memRows, lastQuery>>

\* A Lock that does not wait.
MutexIgnored(mu) == TRUE

\* sync.Mutex: Lock returns when the mutex is unlocked.
MutexFree(mu) == mu = 0

\* m.mu.Lock()
WriterLock(w) ==
    /\ mode = "store"
    /\ ~panicked
    /\ WriterAt(w, "lock")
    /\ MutexFree(store.mu)
    /\ store' = [store EXCEPT !.mu = w, !.w[w].pc = "begin"]
    /\ UNCHANGED <<storeRest, memRows, lastQuery>>

\* tx, err := m.db.Begin()
WriterBegin(w, ok) ==
    /\ mode = "store"
    /\ ~panicked
    /\ WriterAt(w, "begin")
    /\ store' = IF ok THEN [store EXCEPT !.w[w].pc = "prepare"] ELSE WriterReturns(w, FALSE)
    /\ UNCHANGED <<storeRest, memRows, lastQuery>>

\* stmt, err := tx.Prepare(...); on an error tx.Rollback()
WriterPrepare(w, ok) ==
    /\ mode = "store"
    /\ ~panicked
    /\ WriterAt(w, "prepare")
    /\ store' = IF ok THEN [store EXCEPT !.w[w].pc = "exec"] ELSE WriterReturns(w, FALSE)
    /\ memRows' = IF ok THEN memRows ELSE Rollback(memRows, store.w[w].tx)
    /\ UNCHANGED <<storeRest, lastQuery>>

\* stmt.Exec for the next item (in BatchStoreHistory after embedding it): the
\* row joins the transaction; on an error tx.Rollback().
WriterExec(w, ok) ==
    /\ mode = "store"
    /\ ~panicked
    /\ WriterAt(w, "exec")
    /\ LET me == store.w[w]
           row == Row(me.channelID, me.items[Len(me.tx) + 1])
           last == Len(me.tx) + 1 = Len(me.items)
       IN  /\ store' = IF ok
                       THEN [store EXCEPT !.w[w].tx = Append(me.tx, row),
                                          !.w[w].pc = IF last THEN "commit" ELSE "exec"]
                       ELSE WriterReturns(w, FALSE)
           /\ memRows' = IF ok THEN memRows ELSE Rollback(memRows, me.tx)
    /\ UNCHANGED <<storeRest, lastQuery>>

\* tx.Commit()
WriterCommit(w, ok) ==
    /\ mode = "store"
    /\ ~panicked
    /\ WriterAt(w, "commit")
    /\ memRows' = Commit(memRows, store.w[w].tx, ok)
    /\ store' = WriterReturns(w, ok)
    /\ UNCHANGED <<storeRest, lastQuery>>

\* QueryHistory("", "hello", 0) by another goroutine: it takes no lock and
\* reads the committed rows.
StoreQuery ==
    /\ mode = "store"
    /\ ~panicked
    /\ \E res \in QueryHistory(memRows, memConf, "", "hello", 0) :
          lastQuery' = QueryRecord(memRows, "", "hello", 0, FALSE, FALSE, res)
    /\ store' = [store EXCEPT !.readAt = store.mu]
    /\ UNCHANGED <<storeRest, memRows>>

NextStore ==
    \/ \E w \in Writers, c \in StoreChannels, m \in StoreItems, ok \in BOOLEAN :
          StoreHistoryCall(w, c, m, ok)
    \/ \E w \in Writers, c \in StoreChannels, items \in StoreBatches :
          BatchStoreHistoryCall(w, c, items)
    \/ \E w \in Writers : WriterLock(w)
    \/ \E w \in Writers, ok \in BOOLEAN : WriterBegin(w, ok)
    \/ \E w \in Writers, ok \in BOOLEAN : WriterPrepare(w, ok)
    \/ \E w \in Writers, ok \in BOOLEAN : WriterExec(w, ok)
    \/ \E w \in Writers, ok \in BOOLEAN : WriterCommit(w, ok)
    \/ StoreQuery

SpecStore == InitStore /\ [][NextStore]_vars

(***************************************************************************)
(* A caller of ContextBuilder.BuildMessages.                               *)
(***************************************************************************)
RECURSIVE SeqsUpTo(_, _)
SeqsUpTo(S, n) ==
    IF n = 0 THEN {<<>>}
    ELSE LET shorter == SeqsUpTo(S, n - 1)
         IN  shorter \cup {Append(q, x) : q \in {r \in shorter : Len(r) = n - 1}, x \in S}

BuildHistories ==
    SeqsUpTo({Message("user", "hello"), Message("assistant", "answer"), Message("tool", "result")}, MaxBuild)

BuildMemories == SeqsUpTo({Memory("", "hello"), Memory("long", "answer")}, MaxBuild)

BuildRankers == {NoRanker, "ranker"}

BuildCall(history, cur, memCtx, memories, ranker, topK, result) ==
    [fn |-> "BuildMessages", history |-> history, currentMessage |-> cur, memoryContext |-> memCtx, memories |-> memories, ranker |-> ranker, topK |-> topK, result |-> result]

InitBuild ==
    /\ InitCommon
    /\ mode = "build"
    /\ diskFaults = FALSE
    /\ memEnabled = TRUE
    /\ maxIterations = 0
    /\ memConf = MemConf(DefaultThreshold, DefaultTopK)
    /\ files = <<>>
    /\ sessions = LoadAll(files)
    /\ run = RunStart("off")
    /\ proxy = "off"
    /\ ntfy = "off"
    /\ pd = DirectStart("off")

CallBuildMessages(history, cur, memCtx, memories, ranker, topK) ==
    /\ mode = "build"
    /\ ~panicked
    /\ call = NoCall
    /\ call' = BuildCall(history, cur, memCtx, memories, ranker, topK,
                         BuildMessagesWith(history, cur, memCtx, memories, ranker, topK))
    /\ UNCHANGED <<restVars, store, engine>>

NextBuild ==
    \E h \in BuildHistories, c \in {"hello", "bye"}, mc \in {"", "notes"}, ms \in BuildMemories, r \in BuildRankers, k \in {1, DefaultTopK} :
        CallBuildMessages(h, c, mc, ms, r, k)

SpecBuild == InitBuild /\ [][NextBuild]_vars

(***************************************************************************)
(* package memory: ONNXEmbedder.Embed.  A float32 is an integer here and a  *)
(* quotient is kept as numerator and denominator, so no rounding is seen.  *)
(***************************************************************************)
\* splitIntoChunks: the words of the text, maxWords to a chunk.
RECURSIVE splitIntoChunks(_, _)
splitIntoChunks(words, maxWords) ==
    IF words = <<>> THEN <<>>
    ELSE LET end == IF maxWords > Len(words) THEN Len(words) ELSE maxWords
         IN  <<SubSeq(words, 1, end)>> \o splitIntoChunks(SubSeq(words, end + 1, Len(words)), maxWords)

\* The loop "Sum all embeddings": component i of the embeddings of dimension
\* dim; the others are passed over.
SumOfMatching(embeddings, dim, i) ==
    LET RECURSIVE go(_)
        go(k) == IF k = 0 THEN 0
                 ELSE go(k - 1) + (IF Len(embeddings[k]) # dim THEN 0 ELSE embeddings[k][i])
    IN  go(Len(embeddings))

\* averageEmbeddings: nil for no embeddings, a copy of a single one, and
\* otherwise the sum divided by len(embeddings).
averageEmbeddings(embeddings) ==
    IF Len(embeddings) = 0 THEN <<>>
    ELSE IF Len(embeddings) = 1 THEN [i \in 1..Len(embeddings[1]) |-> Quot(embeddings[1][i], 1)]
    ELSE LET dim == Len(embeddings[1])
         IN  [i \in 1..dim |-> Quot(SumOfMatching(embeddings, dim, i), Len(embeddings))]

EmbedCall(text, vec, err, result) ==
    [fn |-> "Embed", text |-> text, vec |-> vec, err |-> err, result |-> result]

\* ONNXEmbedder.Embed, given what engine.EmbedBatch returns for the chunks.
ONNXEmbed(text, vec, engineOk) ==
    IF ~engineOk THEN EmbedCall(text, <<>>, "failed to generate embedding for text", <<>>)
    ELSE IF Len(vec) = 0 \/ Len(vec[1]) = 0 THEN EmbedCall(text, vec, "no embeddings found in the response", <<>>)
    ELSE EmbedCall(text, vec, "", averageEmbeddings(vec))

\* The embeddings an engine may return for one chunk.
ChunkVectors == UNION {[1..d -> {-1, 0, 2}] : d \in 0..MaxDim}

EmbedTexts == SeqsUpTo({"word"}, MaxWords)

InitEmbed ==
    /\ InitCommon
    /\ mode = "embed"
    /\ diskFaults = FALSE
    /\ memEnabled = TRUE
    /\ maxIterations = 0
    /\ memConf = MemConf(DefaultThreshold, DefaultTopK)
    /\ files = <<>>
    /\ sessions = LoadAll(files)
    /\ run = RunStart("off")
    /\ proxy = "off"
    /\ ntfy = "off"
    /\ pd = DirectStart("off")

CallEmbed(text, vec, engineOk) ==
    /\ mode = "embed"
    /\ ~panicked
    /\ call = NoCall
    /\ engineOk => Len(vec) = Len(splitIntoChunks(text, ChunkMaxWords))
    /\ ~engineOk => vec = <<>>
    /\ call' = ONNXEmbed(text, vec, engineOk)
    /\ UNCHANGED <<restVars, store, engine>>

NextEmbed ==
    \E text \in EmbedTexts, vec \in SeqsUpTo(ChunkVectors, MaxWords), ok \in BOOLEAN : CallEmbed(text, vec, ok)

SpecEmbed == InitEmbed /\ [][NextEmbed]_vars

(***************************************************************************)
(* package onnx: the tokenizer and the input tensors.  What the encoder of *)
(* the tokenizer file returns for a text is an input: any sequence of ids, *)
(* or an error.                                                            *)
(***************************************************************************)
\* The state in which a library function of the given mode is called.
InitLib(m) ==
    /\ InitCommon
    /\ mode = m
    /\ diskFaults = FALSE
    /\ memEnabled = TRUE
    /\ maxIterations = 0
    /\ memConf = MemConf(DefaultThreshold, DefaultTopK)
    /\ files = <<>>
    /\ sessions = LoadAll(files)
    /\ run = RunStart("off")
    /\ proxy = "off"
    /\ ntfy = "off"
    /\ pd = DirectStart("off")

\* What EncodeSingle returns: the ids, or an error.
Encoded(ids) == [err |-> "", ids |-> ids]

EncodeError == [err |-> "encode", ids |-> <<>>]

\* for len(tokens) < maxLength { tokens = append(tokens, 0) }
PadTo(tokens, maxLength) ==
    tokens \o [i \in 1..(IF maxLength > Len(tokens) THEN maxLength - Len(tokens) ELSE 0) |-> 0]

\* maxLength as Tokenize and TokenizeBatch take it: the tokenizer's own when
\* the argument is not positive.
EffectiveMaxLength(maxLength) == IF maxLength <= 0 THEN TokenizerMaxLength ELSE maxLength

\* Tokenizer.Tokenize, given the encoding of the preprocessed text.
Tokenize(en, maxLength) ==
    IF EffectiveMaxLength(maxLength) <= 0 THEN [err |-> "maxLength must be > 0", tokens |-> <<>>]
    ELSE IF en.err # "" THEN [err |-> en.err, tokens |-> <<>>]
    ELSE [err |-> "", tokens |-> PadTo(en.ids, EffectiveMaxLength(maxLength))]

\* Tokenizer.TokenizeBatch: the texts one by one, failing at the first that
\* fails.
TokenizeBatch(ens, maxLength) ==
    IF \E i \in 1..Len(ens) : Tokenize(ens[i], maxLength).err # "" THEN [err |-> "failed to tokenize text", tokens |-> <<>>]
    ELSE [err |-> "", tokens |-> [i \in 1..Len(ens) |-> Tokenize(ens[i], maxLength).tokens]]

\* generateAttentionMasks
generateAttentionMasks(tokens) ==
    [i \in 1..Len(tokens) |-> [j \in 1..Len(tokens[i]) |-> IF tokens[i][j] # 0 THEN 1 ELSE 0]]

\* CreateInputTensorFromTokens: the shape of the tensor, or an error.
CreateInputTensorFromTokens(tokens) ==
    IF Len(tokens) = 0 THEN [err |-> "no tokens provided", shape |-> <<>>]
    ELSE IF \E i \in 1..Len(tokens) : Len(tokens[i]) # Len(tokens[1]) THEN [err |-> "sequence has length", shape |-> <<>>]
    ELSE [err |-> "", shape |-> <<Len(tokens), Len(tokens[1])>>]

Encodings == {Encoded(ids) : ids \in SeqsUpTo({0, 1, 2}, MaxIds)} \cup {EncodeError}

\* The first steps of ONNXEmbeddingEngine.Embed: the batch is tokenized and,
\* if that succeeds, the masks and the tensor are made.
CallTokenizeBatch(ens, maxTokens) ==
    /\ mode = "tokenize"
    /\ ~panicked
    /\ call = NoCall
    /\ LET t == TokenizeBatch(ens, maxTokens)
       IN  call' = [fn |-> "TokenizeBatch", ens |-> ens, maxTokens |-> maxTokens, err |-> t.err, tokens |-> t.tokens,
                    masks |-> generateAttentionMasks(t.tokens),
                    tensor |-> IF t.err = "" THEN CreateInputTensorFromTokens(t.tokens) ELSE [err |-> "not made", shape |-> <<>>]]
    /\ UNCHANGED <<restVars, store, engine>>

NextTokenize ==
    \E ens \in SeqsUpTo(Encodings, MaxBatch) \ {<<>>}, maxTokens \in {0, 2} : CallTokenizeBatch(ens, maxTokens)

SpecTokenize == InitLib("tokenize") /\ [][NextTokenize]_vars

(***************************************************************************)
(* package onnx: EmbedBatch, Embed and the InferenceStats tracker, step by *)
(* step, called by concurrent goroutines, GetStats called meanwhile.  The  *)
(* texts of a call are numbered 1..n and the vector of text k is k: the    *)
(* session returns one row for each row of its input.                      *)
(***************************************************************************)
engineRest == <<restVars, call, store>>

\* An EmbedBatch that never looks at its context.
ContextIgnored(e) == FALSE

\* case <-ctx.Done()
ContextDone(e) == e.ctxDone

\* batchSize as EmbedBatch uses it.
EffectiveBatchSize(batchSize) ==
    IF batchSize > 0 THEN batchSize ELSE IF ConfigBatchSize > 0 THEN ConfigBatchSize ELSE 32

\* content[i:end] with end = min(i + batchSize, len(content)), i from 0.
BatchFrom(i, batchSize, n) ==
    [k \in 1..((IF i + batchSize > n THEN n ELSE i + batchSize) - i) |-> i + k]

EmbedderAt(w, pc) == engine.w[w].pc = pc

\* EmbedBatch returns.
EmbedBatchReturns(w, result, err) ==
    [engine.w[w] EXCEPT !.pc = "done", !.result = result, !.err = err]

\* s.updateErrorRate()
updateErrorRate(s) ==
    IF s.TotalInferences > 0 THEN [s EXCEPT !.ErrorRate = Quot(s.TotalErrors, s.TotalInferences)] ELSE s

CallEmbedBatch(w, n, batchSize) ==
    /\ mode = "engine"
    /\ ~panicked
    /\ EmbedderAt(w, "idle")
    /\ engine' = [engine EXCEPT !.w[w] = [EmbedderIdle EXCEPT !.pc = "loop", !.n = n, !.batchSize = EffectiveBatchSize(batchSize)]]
    /\ UNCHANGED engineRest

\* for i := 0; i < len(content); i += batchSize, and the select on ctx.Done().
EmbedBatchLoop(w) ==
    /\ mode = "engine"
    /\ ~panicked
    /\ EmbedderAt(w, "loop")
    /\ LET me == engine.w[w]
       IN  engine' = [engine EXCEPT !.w[w] =
              IF me.i >= me.n THEN EmbedBatchReturns(w, me.all, "")
              ELSE IF ContextDone(engine) THEN EmbedBatchReturns(w, <<>>, "context canceled")
              ELSE [me EXCEPT !.pc = "Embed", !.batch = BatchFrom(me.i, me.batchSize, me.n)]]
    /\ UNCHANGED engineRest

\* ONNXEmbeddingEngine.Embed up to its defer: the content is not empty and the
\* session is there; the context is looked at again.
EmbedStart(w) ==
    /\ mode = "engine"
    /\ ~panicked
    /\ EmbedderAt(w, "Embed")
    /\ engine' = [engine EXCEPT !.w[w] =
          IF ContextDone(engine) THEN EmbedBatchReturns(w, <<>>, "batch processing failed: context canceled")
          ELSE [@ EXCEPT !.pc = "run"]]
    /\ UNCHANGED engineRest

\* Tokenization, the tensors, the inference and the extraction: all succeed,
\* or one fails and Embed calls RecordError before it returns.
EmbedRun(w, ok) ==
    /\ mode = "engine"
    /\ ~panicked
    /\ EmbedderAt(w, "run")
    /\ engine' = [engine EXCEPT !.w[w].failed = ~ok, !.w[w].pc = IF ok THEN "RecordInference" ELSE "RecordError"]
    /\ UNCHANGED engineRest

\* RecordError: s.mutex.Lock() and s.TotalErrors++
RecordErrorLock(w) ==
    /\ mode = "engine"
    /\ ~panicked
    /\ EmbedderAt(w, "RecordError")
    /\ engine.stats.mutex = 0
    /\ engine' = [engine EXCEPT !.stats.mutex = w, !.stats.TotalErrors = @ + 1, !.w[w].pc = "updateErrorRate"]
    /\ UNCHANGED engineRest

\* RecordError: s.updateErrorRate() and the deferred Unlock; the deferred
\* RecordInference of Embed is next.
RecordErrorUnlock(w) ==
    /\ mode = "engine"
    /\ ~panicked
    /\ EmbedderAt(w, "updateErrorRate")
    /\ engine' = [engine EXCEPT !.stats = [updateErrorRate(@) EXCEPT !.mutex = 0], !.w[w].pc = "RecordInference"]
    /\ UNCHANGED engineRest

\* RecordInference: s.mutex.Lock(), s.TotalInferences++ and s.TotalTokens.
RecordInferenceLock(w) ==
    /\ mode = "engine"
    /\ ~panicked
    /\ EmbedderAt(w, "RecordInference")
    /\ engine.stats.mutex = 0
    /\ engine' = [engine EXCEPT !.stats.mutex = w, !.stats.TotalInferences = @ + 1,
                                !.stats.TotalTokens = @ + Len(engine.w[w].batch), !.w[w].pc = "updateStats"]
    /\ UNCHANGED engineRest

\* RecordInference: s.updateStats() (the latencies, not kept here) and the
\* deferred Unlock; Embed returns to EmbedBatch.
RecordInferenceUnlock(w) ==
    /\ mode = "engine"
    /\ ~panicked
    /\ EmbedderAt(w, "updateStats")
    /\ LET me == engine.w[w]
       IN  engine' = [engine EXCEPT !.stats.mutex = 0, !.w[w] =
              IF me.failed THEN EmbedBatchReturns(w, <<>>, "batch processing failed")
              ELSE [me EXCEPT !.pc = "loop", !.all = @ \o me.batch, !.batches = Append(@, me.batch), !.i = @ + me.batchSize]]
    /\ UNCHANGED engineRest

\* GetStats: e.mutex.RLock(), which nothing here holds for writing.
GetStatsRLock ==
    /\ mode = "engine"
    /\ ~panicked
    /\ engine.rd.pc = "idle"
    /\ engine' = [engine EXCEPT !.rd.pc = "RLock"]
    /\ UNCHANGED engineRest

\* GetStats: statsCopy := *e.stats
GetStatsCopy ==
    /\ mode = "engine"
    /\ ~panicked
    /\ engine.rd.pc = "RLock"
    /\ engine' = [engine EXCEPT !.rd = [pc |-> "copied", snap |-> engine.stats]]
    /\ UNCHANGED engineRest

\* GetStats returns the copy.
GetStatsReturn ==
    /\ mode = "engine"
    /\ ~panicked
    /\ engine.rd.pc = "copied"
    /\ engine' = [engine EXCEPT !.rd = [pc |-> "idle", snap |-> NewInferenceStats]]
    /\ UNCHANGED engineRest

\* The caller's context is cancelled.
CancelContext ==
    /\ mode = "engine"
    /\ ~panicked
    /\ ~engine.ctxDone
    /\ engine' = [engine EXCEPT !.ctxDone = TRUE]
    /\ UNCHANGED engineRest

NextEngine ==
    \/ \E w \in Embedders, n \in 0..MaxTexts, batchSize \in {0, 1} : CallEmbedBatch(w, n, batchSize)
    \/ \E w \in Embedders : EmbedBatchLoop(w)
    \/ \E w \in Embedders : EmbedStart(w)
    \/ \E w \in Embedders, ok \in BOOLEAN : EmbedRun(w, ok)
    \/ \E w \in Embedders : RecordErrorLock(w)
    \/ \E w \in Embedders : RecordErrorUnlock(w)
    \/ \E w \in Embedders : RecordInferenceLock(w)
    \/ \E w \in Embedders : RecordInferenceUnlock(w)
    \/ GetStatsRLock
    \/ GetStatsCopy
    \/ GetStatsReturn
    \/ CancelContext

SpecEngine == InitLib("engine") /\ [][NextEngine]_vars

Next ==
    \/ \E m \in Inbounds : PushInbound(m)
    \/ Cancel
    \/ HubClose
    \/ RunStop
    \/ RunReceive
    \/ RunInboundClosed
    \/ RunIdle
    \/ RunRemember
    \/ RunChat
    \/ RunTool
    \/ RunFinish
    \/ ProxyStop
    \/ ProxyForward
    \/ NtfyStop
    \/ NtfySend
    \/ TelegramTake
    \/ DirectCall
    \/ DirectChat
    \/ DirectTool
    \/ DirectExhausted

Spec == Init /\ [][Next]_vars

\* Scheduling: every goroutine keeps running and every provider, tool and HTTP
\* call returns (weak fairness of the steps of Run, the proxy, the ntfy
\* sender and the telegram adapter's consumer); a select with several ready cases picks one uniformly at random,
\* so a case that is ready again and again is taken (strong fairness of the
\* ctx.Done cases). The producers, the cancellation and Hub.Close owe nothing.
RunStep ==
    RunReceive \/ RunInboundClosed \/ RunRemember \/ RunChat \/ RunTool \/ RunFinish

Fairness ==
    /\ WF_vars(RunStep)
    /\ WF_vars(ProxyForward)
    /\ WF_vars(NtfySend)
    /\ WF_vars(TelegramTake)
    /\ SF_vars(RunStop)
    /\ SF_vars(ProxyStop)
    /\ SF_vars(NtfyStop)

SpecFair == Init /\ [][Next]_vars /\ Fairness

(***************************************************************************)
(* Properties of the session manager.                                      *)
(***************************************************************************)
\* The last n elements of a sequence.
LastN(h, n) == [i \in 1..n |-> h[Len(h) - n + i]]

\* C1: right after Save(S), whatever calls came before, S holds at most
\* MaxHistorySize messages in memory, and when the file was written it holds
\* that same history.
SaveBoundsHistory ==
    lastOp.op = "Save" =>
        /\ Len(sessions[lastOp.key]) <= MaxHistorySize
        /\ lastOp.ok =>
             /\ files[lastOp.key].valid
             /\ files[lastOp.key].history = sessions[lastOp.key]
             /\ Len(files[lastOp.key].history) <= MaxHistorySize

\* A Save of a session that was over the limit, written to its file.
SaveTrimmedWitness ==
    /\ lastOp.op = "Save"
    /\ lastOp.ok
    /\ Len(lastOp.pre[lastOp.key]) > MaxHistorySize

\* Whether ret is the trimmed prefixes of the sessions in keys, concatenated
\* in some order.
RECURSIVE IsConcatOf(_, _, _)
IsConcatOf(ret, trimmed, keys) ==
    IF keys = {} THEN ret = <<>>
    ELSE \E k \in keys :
            /\ Len(trimmed[k]) <= Len(ret)
            /\ SubSeq(ret, 1, Len(trimmed[k])) = trimmed[k]
            /\ IsConcatOf(SubSeq(ret, Len(trimmed[k]) + 1, Len(ret)), trimmed,
                          keys \ {k})

\* C2: after Trim or TrimAll, for each session the returned prefix followed by
\* the remaining history is the history before the call; a history of at most
\* MaxHistorySize messages is untouched and yields an empty prefix, a longer
\* one is cut to its last MaxHistorySize messages; TrimAll returns the
\* prefixes concatenated.
TrimPartitions ==
    lastOp.op \in {"Trim", "TrimAll"} =>
        /\ DOMAIN sessions = DOMAIN lastOp.pre
        /\ \A k \in DOMAIN lastOp.pre :
             LET before == lastOp.pre[k]
                 prefix == lastOp.trimmed[k]
                 touched == lastOp.op = "TrimAll" \/ k = lastOp.key
             IN  /\ prefix \o sessions[k] = before
                 /\ Len(before) <= MaxHistorySize =>
                      prefix = <<>> /\ sessions[k] = before
                 /\ (touched /\ Len(before) > MaxHistorySize) =>
                      sessions[k] = LastN(before, MaxHistorySize)
        /\ lastOp.op = "Trim" => lastOp.ret = lastOp.trimmed[lastOp.key]
        /\ lastOp.op = "TrimAll" =>
             IsConcatOf(lastOp.ret, lastOp.trimmed, DOMAIN lastOp.pre)

\* A TrimAll that cut two sessions at once.
TrimAllWitness ==
    /\ lastOp.op = "TrimAll"
    /\ \E k1, k2 \in DOMAIN lastOp.pre :
         /\ k1 # k2
         /\ Len(lastOp.trimmed[k1]) >= 1
         /\ Len(lastOp.trimmed[k2]) >= 1
         /\ lastOp.ret # <<>>

(***************************************************************************)
(* Properties of the agent loop, the hub and the proxy.                    *)
(***************************************************************************)
\* C3: Run makes at most maxIterations provider.Chat calls for the message it
\* processes, and ProcessDirect at most maxIterations per call, whatever the
\* responses request and whether tools fail.
ChatCallsBounded ==
    /\ run.chatCalls <= maxIterations
    /\ pd.chatCalls <= maxIterations

\* Run has used all its iterations on tool calls, the last of which failed.
ChatCallsWitness ==
    /\ maxIterations = MaxIter
    /\ run.chatCalls = maxIterations
    /\ run.lastToolResult = "(tool error) boom"
    /\ run.pc = "chat"

\* The ids of the messages on a queue.
IdsOn(q) == {q[k].id : k \in 1..Len(q)}

\* C4: a message is on a per-transport queue only if its channel selects that
\* queue, and it is there at most once and on one queue only; a message with
\* an unknown channel is on none.
RoutedByChannel ==
    /\ \A k \in 1..Len(telegramOut) : telegramOut[k].channel = "telegram"
    /\ \A k \in 1..Len(ntfyOut) : ntfyOut[k].channel = "ntfy"
    /\ Cardinality(IdsOn(telegramOut)) = Len(telegramOut)
    /\ Cardinality(IdsOn(ntfyOut)) = Len(ntfyOut)
    /\ IdsOn(telegramOut) \cap IdsOn(ntfyOut) = {}
    /\ \A i \in DOMAIN fate :
         /\ fate[i].status \in {"telegram", "ntfy"} => fate[i].status = fate[i].channel
         /\ i \in IdsOn(telegramOut) => fate[i].status = "telegram"
         /\ i \in IdsOn(ntfyOut) => fate[i].status = "ntfy"
         /\ fate[i].channel \notin {"telegram", "ntfy"} =>
              /\ fate[i].status \in {"new", "out", "lost", "unrouted"}
              /\ i \notin IdsOn(telegramOut) \cup IdsOn(ntfyOut)

\* One message on each per-transport queue, and one of an unknown channel
\* dropped.
RoutedWitness ==
    /\ telegramOut # <<>>
    /\ ntfyOut # <<>>
    /\ \E i \in DOMAIN fate : fate[i].status = "unrouted"

\* Run has received message i and not yet attempted its reply.
Dequeued(i) ==
    /\ run.cur.id = i
    /\ run.pc \in {"remember", "chat", "tools", "finish"}

\* The reply to message i was placed on the queue of i's channel, for i's chat.
Delivered(i) ==
    /\ i \in DOMAIN fate
    /\ fate[i].status = fate[i].channel
    /\ fate[i].toChat = fate[i].chatID

\* The reply to message i was dropped at a full queue.
DroppedWhenFull(i) == i \in DOMAIN fate /\ fate[i].status \in {"lost", "full"}

KnownChannel(i) == i \in DOMAIN fate /\ fate[i].channel \in {"telegram", "ntfy"}

\* C5 as stated: every message that Run dequeues (from a channel that has a
\* queue) gets a reply onto its channel's queue, even in a run that is never
\* cancelled.
NeverSilence ==
    <>cancelled \/
    \A i \in 1..MaxInbound : (Dequeued(i) /\ KnownChannel(i)) ~> Delivered(i)

\* C5, amended: unless the cancellation fires, the reply to every message that
\* Run dequeues from telegram or ntfy reaches that channel's queue with the
\* message's chatID, or is dropped because Hub.Out or that queue was full at
\* the enqueue.
ReplyDeliveredOrDropped ==
    \A i \in 1..MaxInbound :
        (Dequeued(i) /\ KnownChannel(i)) ~>
            (Delivered(i) \/ DroppedWhenFull(i) \/ cancelled)

\* One reply was dropped at a full Hub.Out and another reached its queue, with
\* no cancellation.
ReplyDroppedWitness ==
    /\ ~cancelled
    /\ \E i, j \in DOMAIN fate : fate[i].status = "lost" /\ Delivered(j)

\* C6: for the message it processes Run makes one enqueue attempt on Hub.Out,
\* none before the reply is chosen, and the attempted outbound carries the
\* message's channel and chatID.
OneAttemptPerMessage ==
    /\ run.attempts <= 1
    /\ run.pc \in {"remember", "chat", "tools", "finish"} => run.attempts = 0
    /\ (run.pc \in {"select", "done", "panic"} /\ run.cur # NoMsg) =>
         /\ run.attempts = 1
         /\ run.lastOut.id = run.cur.id
         /\ run.lastOut.channel = run.cur.channel
         /\ run.lastOut.chatID = run.cur.chatID

\* Run has answered its second message with the provider-error apology.
OneAttemptWitness ==
    /\ run.pc = "select"
    /\ run.cur.id = 2
    /\ run.attempts = 1
    /\ run.lastOut.content = ProviderErrorReply

\* Run is at the enqueue of a reply.
AtReply ==
    \/ run.pc \in {"remember", "finish"}
    \/ run.pc = "chat" /\ ~LoopContinues(run.iteration, maxIterations)

\* C7: whatever Hub.Out holds, Run's reply step can be taken at once; a reply
\* that met a full Hub.Out is on no queue afterwards and Run is back at its
\* select.
RunNeverBlocks ==
    /\ (AtReply /\ ~panicked) => ENABLED (RunRemember \/ RunFinish)
    /\ \A i \in DOMAIN fate :
         fate[i].status = "lost" =>
            /\ i \notin IdsOn(hubOut) \cup IdsOn(telegramOut) \cup IdsOn(ntfyOut)
            /\ run.cur.id = i => run.pc \in {"select", "done"}

\* Run dropped a reply at a full Hub.Out and is back at its select, the queue
\* still full.
RunDroppedWitness ==
    /\ Len(hubOut) = Buffer
    /\ run.pc = "select"
    /\ run.cur.id \in DOMAIN fate
    /\ fate[run.cur.id].status = "lost"

\* C8: whenever Hub.Out holds a message the proxy's step can be taken at once,
\* whatever the per-transport queues hold; a message for ntfy is forwarded
\* when NtfyOut has room even if TelegramOut is full (and vice versa); a
\* message that met a full queue is on no queue afterwards.
ProxyNeverBlocks ==
    /\ (ProxyMayReceive /\ ~panicked) => ENABLED ProxyForward
    /\ (ProxyMayReceive /\ ~panicked /\ ~closed /\ hubOut # <<>>) =>
         /\ (Head(hubOut).channel = "ntfy" /\ Len(ntfyOut) < Buffer) =>
              ENABLED (ProxyForward /\ ntfyOut' = Append(ntfyOut, Head(hubOut)))
         /\ (Head(hubOut).channel = "telegram" /\ Len(telegramOut) < Buffer) =>
              ENABLED (ProxyForward /\ telegramOut' = Append(telegramOut, Head(hubOut)))
    /\ \A i \in DOMAIN fate :
         fate[i].status = "full" =>
            i \notin IdsOn(hubOut) \cup IdsOn(telegramOut) \cup IdsOn(ntfyOut)

\* A message for telegram was dropped at the full TelegramOut, and a later
\* message for ntfy was forwarded while TelegramOut was still full.
ProxyDroppedWitness ==
    /\ Len(telegramOut) = Buffer
    /\ \E i, j \in DOMAIN fate :
         /\ i < j
         /\ fate[i].channel = "telegram" /\ fate[i].status = "full"
         /\ fate[j].status = "ntfy"
         /\ j \in IdsOn(ntfyOut)

\* C9: once the cancellation has fired, Run, the proxy and the ntfy sender all
\* end (a panic ends the process, and them with it).
TasksTerminate ==
    cancelled ~> (panicked \/ (run.pc = "done" /\ proxy = "done" /\ ntfy = "done"))

\* All three tasks have returned after a cancellation, with a message left in
\* Hub.In.
TasksTerminatedWitness ==
    /\ cancelled
    /\ ~panicked
    /\ hubIn # <<>>
    /\ run.pc = "done" /\ proxy = "done" /\ ntfy = "done"

\* C10 as stated: once the cancellation has fired, Run receives no further
\* message from Hub.In.
NoReceiveAfterCancel == [][cancelled => run'.cur = run.cur]_vars

\* C11 as stated: a receive from a closed queue is never treated as a message:
\* nc.Send is called only for messages that were enqueued, and the proxy
\* forwards only messages that were enqueued (0 labels the zero value that a
\* closed, drained queue yields).
NoSendFromClosedQueue ==
    /\ 0 \notin ntfySent
    /\ 0 \notin IdsOn(telegramOut) \cup IdsOn(ntfyOut)

(***************************************************************************)
(* Properties of a turn of the agent loop.                                 *)
(***************************************************************************)
\* The history of session key in the map ss (empty when there is none).
HistoryOf(ss, key) == IF key \in DOMAIN ss THEN ss[key] ELSE <<>>

\* The history h after a turn was appended and the session saved: h followed
\* by the user message and the assistant message, cut to its last
\* MaxHistorySize messages.
WithTurn(h, user, assistant) ==
    LET all == h \o <<Message("user", user), Message("assistant", assistant)>>
    IN  IF Len(all) <= MaxHistorySize THEN all ELSE LastN(all, MaxHistorySize)

\* The contents whose trimmed form matches the remember pattern.
RememberContents == {"remember to buy milk", " remember to buy milk "}

\* Run starts on a message it has just received.
RunTakes == run.pc = "select" /\ run'.pc \in {"remember", "chat"}

\* Run completes the remember short-circuit.
RememberStep == run.pc = "remember" /\ run'.pc = "select"

\* C12: a message whose trimmed content matches the remember pattern takes the
\* short-circuit, and only such a message; the short-circuit makes no provider
\* call and executes no tool, attempts one enqueue of "OK, I've remembered
\* that." for the message's channel and chatID, and leaves the session
\* channel:chatID with two more messages at its end, the user message with the
\* content as received and the assistant message with that reply (Save keeps
\* the last MaxHistorySize messages); no other session changes.
RememberShortCircuit ==
    [][/\ RunTakes =>
            (run'.pc = "remember" <=> run'.cur.content \in RememberContents)
       /\ RememberStep =>
            LET msg == run.cur
                key == msg.channel \o ":" \o msg.chatID
            IN  /\ run.chatCalls = 0 /\ run.execs = <<>> /\ run.resps = <<>>
                /\ run'.chatCalls = 0 /\ run'.execs = <<>> /\ run'.resps = <<>>
                /\ run'.attempts = 1
                /\ run'.lastOut.channel = msg.channel
                /\ run'.lastOut.chatID = msg.chatID
                /\ run'.lastOut.content = "OK, I've remembered that."
                /\ hubOut' \in {hubOut, Append(hubOut, run'.lastOut)}
                /\ DOMAIN sessions' = DOMAIN sessions \cup {key}
                /\ sessions'[key] = WithTurn(HistoryOf(sessions, key), msg.content,
                                             "OK, I've remembered that.")
                /\ \A k \in DOMAIN sessions \ {key} : sessions'[k] = sessions[k]
      ]_vars

\* Run has answered a remember message that came with surrounding blanks, on a
\* chat without earlier history: the session holds the two messages of that
\* turn.
RememberWitness ==
    /\ run.pc = "select"
    /\ run.cur.content = " remember to buy milk "
    /\ run.lastOut.content = RememberReply
    /\ "telegram:2" \in DOMAIN sessions
    /\ sessions["telegram:2"] = << Message("user", " remember to buy milk "),
                                   Message("assistant", RememberReply) >>

\* Whether a provider response requests tool calls.
AsksTools(r) == ~r.err /\ r.hasToolCalls

\* The number of tool calls the responses request.
RECURSIVE CallsOf(_)
CallsOf(resps) ==
    IF resps = <<>> THEN 0
    ELSE (IF AsksTools(Head(resps)) THEN Len(Head(resps).calls) ELSE 0)
         + CallsOf(Tail(resps))

\* What the responses and the tool executions made so far must have added to
\* the turn's message list: per response with tool calls, one assistant message
\* with the response's content and calls, then one tool message per executed
\* call, in call order, with the call's id and the tool's result or
\* "(tool error) " + the error text.
RECURSIVE ToolTrail(_, _)
ToolTrail(resps, execs) ==
    IF resps = <<>> THEN <<>>
    ELSE LET r == Head(resps)
             n == IF ~AsksTools(r) THEN 0
                  ELSE IF Len(r.calls) <= Len(execs) THEN Len(r.calls)
                  ELSE Len(execs)
         IN  (IF AsksTools(r)
              THEN << [role |-> "assistant", content |-> r.content,
                       toolCalls |-> r.calls, toolCallID |-> ""] >>
              ELSE <<>>)
             \o [i \in 1..n |->
                   [role |-> "tool",
                    content |-> IF execs[i].err # ""
                                THEN "(tool error) " \o execs[i].err
                                ELSE execs[i].res,
                    toolCalls |-> <<>>,
                    toolCallID |-> r.calls[i]]]
             \o ToolTrail(Tail(resps), SubSeq(execs, n + 1, Len(execs)))

\* Run is inside a turn of the tool loop.
InTurn == run.pc \in {"chat", "tools", "finish"}

\* A sequence without its last element.
Front(q) == SubSeq(q, 1, Len(q) - 1)

\* The last k elements of the turn's message list.
Appended(msgs, k) == SubSeq(msgs, Len(msgs) - k + 1, Len(msgs))

\* C13: inside a turn, what Run has appended to the message list is exactly the
\* trail of its responses and tool executions; between iterations every call
\* of every response has been executed, failed or not; the turn leaves the
\* tool loop only on a provider error or a response without tool calls (or
\* when no iteration remains), never because a tool failed; and each
\* provider call was given the list with the complete trail of the responses
\* before it.
ToolMessagesAppended ==
    InTurn =>
        LET trail == ToolTrail(run.resps, run.execs)
            before == ToolTrail(Front(run.resps),
                                SubSeq(run.execs, 1, CallsOf(Front(run.resps))))
            base == Len(run.messages) - Len(trail)
        IN  /\ base >= 2
            /\ run.messages[base].role = "user"
            /\ run.messages[base].content = run.cur.content
            /\ \A i \in 1..base : run.messages[i].role # "tool"
            /\ Appended(run.messages, Len(trail)) = trail
            /\ run.pc \in {"chat", "finish"} =>
                 /\ Len(run.execs) = CallsOf(run.resps)
                 /\ run.pending = <<>>
            /\ run.pc = "tools" =>
                 /\ AsksTools(run.resps[Len(run.resps)])
                 /\ Len(run.execs) + Len(run.pending) = CallsOf(run.resps)
            /\ run.pc = "finish" =>
                 /\ run.resps # <<>>
                 /\ ~AsksTools(run.resps[Len(run.resps)])
            /\ run.resps # <<>> =>
                 run.chatArg = SubSeq(run.messages, 1, base) \o before

\* A response asked for two tools with a comment, the first tool failed, the
\* second ran, and the next provider call got the assistant message and both
\* tool messages.
ToolMessagesWitness ==
    /\ run.pc = "finish"
    /\ Len(run.resps) = 2
    /\ run.resps[1].content = "let me check"
    /\ Len(run.resps[1].calls) = 2
    /\ run.execs[1].err = "boom"
    /\ run.execs[2].res = "result"
    /\ Len(run.chatArg) >= 3
    /\ run.chatArg[Len(run.chatArg) - 1].content = "(tool error) boom"
    /\ run.chatArg[Len(run.chatArg) - 1].toolCallID = "c1"
    /\ run.chatArg[Len(run.chatArg)].toolCallID = "c2"

\* The last provider call of the turn returned an error.
ProviderFailed == InTurn /\ run.resps # <<>> /\ run.resps[Len(run.resps)].err

\* Run completes a turn of the tool loop: the reply is attempted.
FinishStep == InTurn /\ run'.pc = "select"

\* The session key of the message Run is processing.
CurKey == run.cur.channel \o ":" \o run.cur.chatID

\* C14: once provider.Chat has returned an error, Run is past the tool loop and
\* the only thing it does for that message is to finish the turn, with no
\* further provider call or tool execution: the reply it attempts is "Sorry, I
\* encountered an error while processing your request." whatever tool results
\* came before, and the session ends with the user message and that apology.
ProviderErrorEndsTurn ==
    [][ProviderFailed =>
          /\ run.pc = "finish"
          /\ run' # run =>
               /\ FinishStep
               /\ run'.attempts = 1
               /\ run'.lastOut.channel = run.cur.channel
               /\ run'.lastOut.chatID = run.cur.chatID
               /\ run'.lastOut.content =
                     "Sorry, I encountered an error while processing your request."
               /\ sessions'[CurKey] =
                     WithTurn(HistoryOf(sessions, CurKey), run.cur.content,
                              "Sorry, I encountered an error while processing your request.")
      ]_vars

\* Run has sent the apology for a message of a chat whose history was full: the
\* session still holds MaxHistorySize messages and ends with the user message
\* and the apology.
ProviderErrorWitness ==
    /\ run.pc = "select"
    /\ run.cur.content = "hello"
    /\ run.lastOut.content = ProviderErrorReply
    /\ hubOut # <<>> /\ hubOut[Len(hubOut)] = run.lastOut
    /\ CurKey \in DOMAIN sessions
    /\ Len(sessions[CurKey]) = MaxHistorySize
    /\ sessions[CurKey][MaxHistorySize - 1] = Message("user", "hello")
    /\ sessions[CurKey][MaxHistorySize] = Message("assistant", ProviderErrorReply)

\* The content of the response that ended the tool loop: that of the last
\* response when it carries no tool calls, nothing when the loop ran out of
\* iterations (or never ran).
FinalContentOf(resps) ==
    IF resps # <<>> /\ ~AsksTools(resps[Len(resps)]) THEN resps[Len(resps)].content
    ELSE ""

\* The result of the most recently executed tool call, as the tool message
\* carries it; nothing when no tool was executed.
LastResultOf(execs) ==
    IF execs = <<>> THEN ""
    ELSE IF execs[Len(execs)].err # "" THEN "(tool error) " \o execs[Len(execs)].err
    ELSE execs[Len(execs)].res

\* C15: Run leaves the tool loop only after a response without tool calls, a
\* provider error, or maxIterations provider calls (none when maxIterations is
\* 0); when no provider error occurred the reply it attempts is the final
\* response's content if non-empty, otherwise the result of the most recently
\* executed tool call if non-empty, otherwise "I've completed processing but
\* have no response to give.".
ReplyChosen ==
    [][FinishStep =>
          /\ \/ run.pc = "finish"
             \/ run.pc = "chat" /\ Len(run.resps) = maxIterations
          /\ ~ProviderFailed =>
               run'.lastOut.content =
                  IF FinalContentOf(run.resps) # "" THEN FinalContentOf(run.resps)
                  ELSE IF LastResultOf(run.execs) # "" THEN LastResultOf(run.execs)
                  ELSE "I've completed processing but have no response to give."
      ]_vars

\* With a single iteration allowed, Run has replied with a tool's result: the
\* only response asked for tools and the loop ran out of iterations.
ReplyChosenWitness ==
    /\ maxIterations = 1
    /\ run.pc = "select"
    /\ run.lastOut.content = "result"
    /\ hubOut # <<>> /\ hubOut[Len(hubOut)].content = "result"

\* The history of session k as the step records it, before any trimming: with
\* the two messages of the turn when the step completes a turn of that chat.
Untrimmed(k) ==
    IF (FinishStep \/ RememberStep) /\ k = CurKey
    THEN HistoryOf(sessions, k) \o << Message("user", run.cur.content),
                                      Message("assistant", run'.lastOut.content) >>
    ELSE HistoryOf(sessions, k)

\* The messages the step removes from the front of session k.
Removed(k) == SubSeq(Untrimmed(k), 1, Len(Untrimmed(k)) - Len(sessions'[k]))

\* The StoreHistory calls the step makes.
NewStoreCalls == SubSeq(storeCalls', Len(storeCalls) + 1, Len(storeCalls'))

\* C16 as stated: with persistent memory enabled, every message with a role
\* other than "user" that a step of Run removes from a session's history is
\* passed to StoreHistory in that step, whether TrimAll or Save's own trim
\* removed it, on the normal path and on the remember short-circuit.
TrimmedAreArchived ==
    [][memEnabled =>
          \A k \in DOMAIN sessions' :
             \A i \in 1..Len(Removed(k)) :
                Removed(k)[i].role # "user" =>
                   \E j \in 1..Len(NewStoreCalls) :
                      /\ NewStoreCalls[j].role = Removed(k)[i].role
                      /\ NewStoreCalls[j].content = Removed(k)[i].content
      ]_vars

(***************************************************************************)
(* Properties of ProcessDirect.                                            *)
(***************************************************************************)
\* The reply Run attempts after those provider responses and tool executions
\* (none of them a provider error).
RunReplyFor(resps, execs) ==
    IF FinalContentOf(resps) # "" THEN FinalContentOf(resps)
    ELSE IF LastResultOf(execs) # "" THEN LastResultOf(execs)
    ELSE "I've completed processing but have no response to give."

\* C17 as stated: when ProcessDirect returns without error, the text it returns
\* is the reply Run emits for the same provider responses and tool results,
\* also when maxIterations is exhausted and when the provider returns empty
\* content with no tool result.
DirectRepliesLikeRun ==
    (pd.pc = "done" /\ ~pd.failed) => pd.result = RunReplyFor(pd.resps, pd.execs)

\* C18: a step of ProcessDirect changes no session's history, creates no
\* session, writes no session file, stores nothing into persistent memory and
\* puts nothing on a queue of the hub; it only advances the call, whose outcome
\* is the returned string or error.
DirectHasNoEffect ==
    [][pd' # pd =>
          /\ sessions' = sessions
          /\ files' = files
          /\ memRows' = memRows /\ storeCalls' = storeCalls
          /\ hubOut' = hubOut /\ hubIn' = hubIn
          /\ telegramOut' = telegramOut /\ ntfyOut' = ntfyOut
      ]_vars

\* ProcessDirect has returned an answer after a tool call, and there is still
\* no session, no session file, no row and nothing on Hub.Out.
DirectNoEffectWitness ==
    /\ pd.pc = "done"
    /\ ~pd.failed
    /\ pd.result = "answer"
    /\ Len(pd.execs) >= 1
    /\ DOMAIN sessions = {}
    /\ DOMAIN files = {}
    /\ memRows = <<>> /\ storeCalls = <<>>
    /\ hubOut = <<>>

(***************************************************************************)
(* Properties of QueryHistory.                                             *)
(***************************************************************************)
\* The similarity of row i of the table the last query read to its query, as
\* the sum of the products of the embeddings' components (in hundredths).
SimOf(i) ==
    LET a == Embed(lastQuery.rows[i].content)
        b == Embed(lastQuery.query)
    IN  a[1] * b[1] + a[2] * b[2]

\* The limit in force for the last query: the argument, or the configured topK
\* when the argument is not positive.
TopKOf == IF lastQuery.topk <= 0 THEN memConf.topk ELSE lastQuery.topk

\* The rows the last query returned, by position in the table.
Returned == {lastQuery.results[n].id : n \in 1..Len(lastQuery.results)}

\* Nothing returned is less similar to the query than row i.
Outranked(i) ==
    \A n \in 1..Len(lastQuery.results) : lastQuery.results[n].similarity >= SimOf(i)

\* The last query read every row of its statement.
ReadToEnd == ~lastQuery.rowsErr

\* A QueryHistory call has returned a result.
Answered == lastQuery.called /\ ~lastQuery.failed

\* C19: a result of QueryHistory holds only rows of the table, each once and
\* with its similarity to the query, all of similarity >= the threshold, in
\* non-increasing order of similarity, and at most topK of them (the configured
\* topK when the argument is <= 0); a row of similarity >= the threshold that
\* the channel filter lets through is left out only when nothing less similar
\* is returned, and, when every row of the statement was read, only when topK
\* rows are returned.
QueryReturnsTopK ==
    Answered =>
        LET res == lastQuery.results
        IN  /\ \A n \in 1..Len(res) :
                 /\ res[n].id \in 1..Len(lastQuery.rows)
                 /\ res[n].text = lastQuery.rows[res[n].id].content
                 /\ res[n].role = lastQuery.rows[res[n].id].role
                 /\ res[n].similarity = SimOf(res[n].id)
                 /\ res[n].similarity >= memConf.threshold
            /\ \A n, m \in 1..Len(res) :
                 /\ n < m => res[n].similarity >= res[m].similarity
                 /\ n # m => res[n].id # res[m].id
            /\ Len(res) <= TopKOf
            /\ \A i \in 1..Len(lastQuery.rows) :
                 ( /\ SimOf(i) >= memConf.threshold
                   /\ lastQuery.channelID \in {"", lastQuery.rows[i].channel_id}
                   /\ i \notin Returned ) =>
                     /\ Outranked(i)
                     /\ ReadToEnd => Len(res) = TopKOf

\* A query with a non-positive topk over three rows above the threshold, two of
\* them equally similar, returned the configured two rows and left the least
\* similar one out.
QueryTopKWitness ==
    /\ Answered
    /\ ReadToEnd
    /\ lastQuery.topk <= 0
    /\ memConf.topk = 2
    /\ Len(lastQuery.rows) = 3
    /\ \A i \in 1..3 : SimOf(i) >= memConf.threshold
    /\ Len(lastQuery.results) = 2
    /\ lastQuery.results[1].similarity = lastQuery.results[2].similarity
    /\ \E i \in 1..3 : i \notin Returned /\ SimOf(i) < lastQuery.results[2].similarity

\* C20: a result of QueryHistory for a non-empty channel holds only rows whose
\* channel_id is that channel; for channel "" the channel_id of a row never
\* keeps it out: when every row of the statement was read, every row of
\* similarity >= the threshold is returned unless topK rows at least as similar
\* are.
QueryFiltersChannel ==
    Answered =>
        /\ lastQuery.channelID # "" =>
             \A n \in 1..Len(lastQuery.results) :
                lastQuery.rows[lastQuery.results[n].id].channel_id = lastQuery.channelID
        /\ (lastQuery.channelID = "" /\ ReadToEnd) =>
             \A i \in 1..Len(lastQuery.rows) :
                (SimOf(i) >= memConf.threshold /\ i \notin Returned) =>
                    (Outranked(i) /\ Len(lastQuery.results) = TopKOf)

\* A query for telegram1 returned its row although a row of ntfy1 is more
\* similar to the query.
QueryChannelWitness ==
    /\ Answered
    /\ ReadToEnd
    /\ lastQuery.channelID = "telegram1"
    /\ Len(lastQuery.results) = 1
    /\ \E i \in 1..Len(lastQuery.rows) :
         /\ lastQuery.rows[i].channel_id = "ntfy1"
         /\ SimOf(i) > lastQuery.results[1].similarity

(***************************************************************************)
(* Properties of the SQL functions.                                        *)
(***************************************************************************)
\* The statement has evaluated both functions on its pair of values.
BothCalled == call.fn = "cosine" /\ call.dist # NotCalled

\* C21 as stated: on every pair of values cosine_distance and cosine_similarity
\* both succeed or both fail, and when they succeed the distance is
\* 1 - the similarity.
DistanceIsOneMinusSimilarity ==
    BothCalled =>
        /\ (call.sim.err = "") <=> (call.dist.err = "")
        /\ call.sim.err = "" => call.dist.val = FSub(Fin(1), call.sim.val)

\* Component i of vector v, and 0 past its end.
At(v, i) == IF i <= Len(v) THEN v[i] ELSE Fin(0)

\* The sum of the products of the first n components of the two vectors of the
\* call, those past the end of a vector taken as 0.
RECURSIVE DotUpTo(_)
DotUpTo(n) ==
    IF n = 0 THEN Fin(0)
    ELSE FAdd(DotUpTo(n - 1), FMul(At(call.a.floats, n), At(call.b.floats, n)))

ShorterLen == IF Len(call.a.floats) <= Len(call.b.floats) THEN Len(call.a.floats) ELSE Len(call.b.floats)
LongerLen == IF Len(call.a.floats) >= Len(call.b.floats) THEN Len(call.a.floats) ELSE Len(call.b.floats)

\* cosine_similarity was given two BLOBs of whole float32 values.
WholeBlobs ==
    /\ call.fn = "cosine"
    /\ call.a.blob /\ call.b.blob
    /\ call.a.rest = 0 /\ call.b.rest = 0

\* The components the longer vector has past the end of the shorter are finite.
FiniteTail ==
    \A i \in (ShorterLen + 1)..LongerLen :
        At(call.a.floats, i).k = "fin" /\ At(call.b.floats, i).k = "fin"

\* cosine_similarity fails exactly on a value that is no BLOB and on a BLOB
\* whose length is no multiple of 4.
SimilarityErrsOnlyOnMalformed ==
    call.fn = "cosine" => ((call.sim.err # "") <=> ~WholeBlobs)

\* C28 as stated: for two BLOBs of whole float32 values cosine_similarity
\* returns no error, and the dot product with the shorter vector zero-padded,
\* which equals the dot product over the common prefix; it fails only on a
\* value that is no BLOB and on a BLOB whose length is no multiple of 4.
MismatchIsPrefixDot ==
    /\ SimilarityErrsOnlyOnMalformed
    /\ WholeBlobs =>
         /\ call.sim.val = DotUpTo(LongerLen)
         /\ call.sim.val = DotUpTo(ShorterLen)

\* C28: for two BLOBs of whole float32 values cosine_similarity returns no
\* error, and the dot product with the shorter vector zero-padded; this is the
\* dot product over the common prefix when the components past the prefix are
\* finite (an infinity or a NaN there times the padding's 0 gives NaN); it fails
\* only on a value that is no BLOB and on a BLOB whose length is no multiple
\* of 4.
MismatchIsNotFatal ==
    /\ SimilarityErrsOnlyOnMalformed
    /\ WholeBlobs =>
         /\ call.sim.val = DotUpTo(LongerLen)
         /\ FiniteTail => call.sim.val = DotUpTo(ShorterLen)

\* cosine_similarity of a vector of one value and a longer one with a finite
\* second value returned the product of the first values, which is not 0.
MismatchWitness ==
    /\ WholeBlobs
    /\ Len(call.a.floats) = 1
    /\ Len(call.b.floats) = 2
    /\ call.b.floats[2] = Fin(2)
    /\ call.sim = ScalarOk(Fin(4))

(***************************************************************************)
(* Properties of StoreHistory and BatchStoreHistory.                       *)
(***************************************************************************)
\* The call of writer w returns in this step.
WriterReturning(w) == store.w[w].pc # "returned" /\ store'.w[w].pc = "returned"

\* One row per item of the call of writer w, in the order of the items, with
\* the call's channel id.
RowsOfCall(me) ==
    [i \in 1..Len(me.items) |->
        [channel_id |-> me.channelID, role |-> me.items[i].role, content |-> me.items[i].content]]

\* C22: a call of StoreHistory or BatchStoreHistory that returns an error
\* leaves the table as it was, one that returns nil appends one row per item,
\* in item order and with the given channel id (one row for StoreHistory), and
\* the table changes at no other step of a call.
StoreIsAllOrNothing ==
    [][ /\ \A w \in Writers :
             WriterReturning(w) =>
                memRows' = IF store'.w[w].result = "nil"
                           THEN memRows \o RowsOfCall(store'.w[w])
                           ELSE memRows
        /\ memRows' # memRows => \E w \in Writers : WriterReturning(w) ]_vars

\* A BatchStoreHistory of two items failed after its first insert and left no
\* row, while the two rows of another one that succeeded are in the table.
StoreFailedWitness ==
    \E w, v \in Writers :
        /\ store.w[w].fn = "BatchStoreHistory"
        /\ store.w[w].result = "err"
        /\ Len(store.w[w].items) = 2
        /\ Len(store.w[w].tx) = 1
        /\ store.w[v].fn = "BatchStoreHistory"
        /\ store.w[v].result = "nil"
        /\ Len(store.w[v].items) = 2
        /\ store.w[v].items # store.w[w].items
        /\ memRows = RowsOfCall(store.w[v])

\* The writers between their Begin and their Commit or Rollback.
InTransaction == {w \in Writers : store.w[w].pc \in {"prepare", "exec", "commit"}}

\* C23: at most one write transaction is open at a time, its writer holding
\* the mutex from before Begin until after Commit or Rollback; QueryHistory
\* leaves the mutex alone and can run in every state, whoever holds the mutex.
WritesAreSerialized ==
    /\ [](mode = "store" =>
            /\ Cardinality(InTransaction) <= 1
            /\ \A w \in Writers :
                  store.w[w].pc \in {"begin", "prepare", "exec", "commit"} => store.mu = w
            /\ ENABLED StoreQuery)
    /\ [][lastQuery' # lastQuery => store'.mu = store.mu]_vars

\* QueryHistory ran and returned the row an earlier call committed while a
\* writer, which still holds the mutex, had a transaction open with its rows
\* inserted.
ReadDuringWriteWitness ==
    \E w, v \in Writers :
        /\ store.readAt = w
        /\ store.mu = w
        /\ store.w[w].pc = "commit"
        /\ store.w[v].result = "nil"
        /\ lastQuery.called
        /\ lastQuery.rows = memRows
        /\ Len(lastQuery.results) = 1

(***************************************************************************)
(* Properties of the session manager under the agent loop.                 *)
(***************************************************************************)
\* C24: GetOrCreate(key) leaves every session that exists as it is, the one
\* under key included, and adds an empty session under key when there is none:
\* a second call changes nothing.
GetOrCreateIsIdempotent ==
    lastOp.op = "GetOrCreate" =>
        /\ DOMAIN sessions = DOMAIN lastOp.pre \cup {lastOp.key}
        /\ \A k \in DOMAIN lastOp.pre : sessions[k] = lastOp.pre[k]
        /\ lastOp.key \notin DOMAIN lastOp.pre => sessions[lastOp.key] = <<>>
        /\ GetOrCreate(sessions, lastOp.key) = sessions

\* GetOrCreate was called again for a session that an earlier call created
\* (no file held it) and that has two messages since, next to a session
\* loaded with MaxHistorySize messages.
GetOrCreateAgainWitness ==
    /\ mode = "session"
    /\ lastOp.op = "GetOrCreate"
    /\ lastOp.key \in DOMAIN lastOp.pre
    /\ lastOp.key \notin DOMAIN files
    /\ Len(sessions[lastOp.key]) = 2
    /\ \E k \in DOMAIN sessions : k # lastOp.key /\ Len(sessions[k]) = MaxHistorySize

\* C25 as stated: after a Save that failed to write the session file, the
\* session's history is what it was when Save was called (the agent loop goes
\* on: the error is not looked at).
FailedSaveKeepsHistory ==
    (lastOp.op = "Save" /\ ~lastOp.ok) =>
        /\ lastOp.key \in DOMAIN sessions
        /\ sessions[lastOp.key] = lastOp.pre[lastOp.key]
        /\ ~panicked => run.pc # "done"

(***************************************************************************)
(* Properties of the order of dispatch and of processing.                  *)
(***************************************************************************)
\* The messages the proxy has placed on that transport's queue so far (the
\* numbers count the enqueues on Hub.Out).
PlacedOn(q) == {i \in DOMAIN fate : fate[i].status = q}

\* The numbers of the messages a queue holds, from its head.
IdsOf(q) == [k \in 1..Len(q) |-> q[k].id]

Increasing(ids) == \A k, l \in 1..Len(ids) : k < l => ids[k] < ids[l]

\* C26: a message the proxy places on a transport's queue goes to the end of
\* that queue, leaves Hub.Out, was placed on no queue before, and was enqueued
\* on Hub.Out after every message placed on that queue before it; so each
\* transport's queue holds its messages in the order of their enqueue on
\* Hub.Out.
ProxyKeepsOrder ==
    /\ [](Increasing(IdsOf(telegramOut)) /\ Increasing(IdsOf(ntfyOut)))
    /\ [][ \A q \in {"telegram", "ntfy"} :
             Len(TransportQueue(q)') > Len(TransportQueue(q)) =>
                LET m == TransportQueue(q)'[Len(TransportQueue(q)')]
                IN  /\ TransportQueue(q)' = Append(TransportQueue(q), m)
                    /\ m.id \in IdsOn(hubOut)
                    /\ m.id \notin IdsOn(hubOut')
                    /\ m.id \notin PlacedOn("telegram") \cup PlacedOn("ntfy")
                    /\ \A j \in PlacedOn(q) : j < m.id ]_vars

\* TelegramOut holds the first and the third message enqueued on Hub.Out, in
\* that order; the second one went to NtfyOut.
ProxyOrderWitness ==
    /\ mode = "order"
    /\ IdsOf(telegramOut) = <<1, 3>>
    /\ 2 \in PlacedOn("ntfy")

\* Run attempts the enqueue of a reply on Hub.Out in this step.
RunAttempts == run'.attempts > run.attempts

\* The inbound messages numbered up to n have had their reply attempted, the
\* later ones have not.
AttemptedUpTo(f, n) ==
    \A j \in DOMAIN f : (f[j].status # "new") <=> (j <= n)

\* C27: Run takes the inbound messages in the order of their arrival on Hub.In
\* and one at a time: it takes message k+1 from its select only, when message
\* k's session is saved and its reply attempted; every enqueue attempt is for
\* the message taken last and comes with its turn (the user message, then the
\* reply) at the end of its session, no other session changing; so the replies
\* on Hub.Out are in arrival order.
RunIsSequential ==
    /\ [](Increasing(IdsOf(hubOut)))
    /\ [][ /\ RunTakes =>
                /\ run'.cur = hubIn[1]
                /\ run'.cur.id = run.cur.id + 1
                /\ AttemptedUpTo(fate, run.cur.id)
                /\ run.cur.id >= 1 => (lastOp.op = "Save" /\ lastOp.key = CurKey)
           /\ run'.cur # run.cur => RunTakes
           /\ RunAttempts =>
                /\ run'.lastOut.id = run.cur.id
                /\ AttemptedUpTo(fate, run.cur.id - 1)
                /\ AttemptedUpTo(fate', run.cur.id)
                /\ sessions'[CurKey] =
                      WithTurn(HistoryOf(sessions, CurKey), run.cur.content,
                               run'.lastOut.content)
                /\ lastOp'.op = "Save" /\ lastOp'.key = CurKey
           /\ \A k \in DOMAIN sessions :
                sessions'[k] # sessions[k] => (RunAttempts /\ k = CurKey) ]_vars

\* Two messages of one chat were processed: their replies are on Hub.Out in
\* arrival order and the chat's session, empty before, holds the two turns in
\* that order.
RunSequentialWitness ==
    /\ mode = "turn"
    /\ IdsOf(hubOut) = <<1, 2>>
    /\ hubOut[1].content # hubOut[2].content
    /\ "telegram:1" \in DOMAIN sessions
    /\ sessions["telegram:1"] =
          << Message("user", "hello"), Message("assistant", hubOut[1].content),
             Message("user", "hello"), Message("assistant", hubOut[2].content) >>

(***************************************************************************)
(* Properties of BuildMessages.                                            *)
(***************************************************************************)
\* The memories of the call, one line each, from the first to the last.
ListedInOrder ==
    LET ms == call.memories
        line(i) == "- " \o ms[i].text \o " (" \o ms[i].kind \o ")\n"
        RECURSIVE upTo(_)
        upTo(n) == IF n = 0 THEN "" ELSE upTo(n - 1) \o line(n)
    IN  IF Len(ms) = 0 THEN "" ELSE "Relevant memories:\n" \o upTo(Len(ms))

\* C29: BuildMessages returns Len(history) + 2 messages: a system message, the
\* history in its order with every role and content as it is, and the current
\* message as a user message; without ranker the system message lists the
\* memories in the order given.
BuildMessagesShape ==
    call.fn = "BuildMessages" =>
        LET res == call.result
            n == Len(call.history)
        IN  /\ Len(res) = n + 2
            /\ res[1].role = "system"
            /\ \A i \in 1..n :
                  /\ res[i + 1].role = call.history[i].role
                  /\ res[i + 1].content = call.history[i].content
            /\ res[n + 2].role = "user"
            /\ res[n + 2].content = call.currentMessage
            /\ call.ranker = NoRanker =>
                  res[1].content =
                     SystemHead
                     \o (IF call.memoryContext = "" THEN "" ELSE "Memory:\n" \o call.memoryContext)
                     \o ListedInOrder

\* BuildMessages without ranker was given a history of two messages and two
\* different memories.
BuildMessagesWitness ==
    /\ call.fn = "BuildMessages"
    /\ call.ranker = NoRanker
    /\ Len(call.history) = 2
    /\ call.history[1] # call.history[2]
    /\ Len(call.memories) = 2
    /\ call.memories[1] # call.memories[2]
    /\ Len(call.result) = 4

(***************************************************************************)
(* Properties of ONNXEmbedder.Embed.                                       *)
(***************************************************************************)
\* The chunks whose embedding has the dimension of the first chunk's.
MatchingChunks == {k \in 1..Len(call.vec) : Len(call.vec[k]) = Len(call.vec[1])}

EmbedReturned == call.fn = "Embed" /\ call.err = ""

\* q is x / n
IsQuotient(q, x, n) == q.num * n = x * q.den

\* C30: the embedding returned is the arithmetic mean of the chunk vectors of
\* the first chunk's dimension: their sum divided by their number; the chunks
\* of another dimension count neither in the sum nor in the divisor.
EmbedIsMeanOfMatching ==
    EmbedReturned =>
        /\ Len(call.result) = Len(call.vec[1])
        /\ \A i \in 1..Len(call.result) :
              IsQuotient(call.result[i], SumOfMatching(call.vec, Len(call.vec[1]), i), Cardinality(MatchingChunks))

\* What the code does with the skipped chunks: they are left out of the sum
\* and counted in the divisor.
EmbedDividesByAllChunks ==
    EmbedReturned =>
        /\ Len(call.result) = Len(call.vec[1])
        /\ \A i \in 1..Len(call.result) :
              IsQuotient(call.result[i], SumOfMatching(call.vec, Len(call.vec[1]), i), Len(call.vec))

\* An embedding was returned for chunks of which one was skipped, and the sum
\* of the others is not zero.
EmbedSkippedWitness ==
    /\ EmbedReturned
    /\ Cardinality(MatchingChunks) < Len(call.vec)
    /\ \E i \in 1..Len(call.result) : call.result[i].num # 0

(***************************************************************************)
(* Properties of the tokenizer.                                            *)
(***************************************************************************)
Tokenized == call.fn = "TokenizeBatch" /\ call.err = ""

\* C31: every sequence Tokenize returns has exactly maxTokens ids, the
\* encoded ids followed by zeros, so the sequences of a batch have one
\* length; the attention mask is 1 exactly where the token id is not 0.
TokenizeGivesMaxTokens ==
    Tokenized =>
        \A i \in 1..Len(call.tokens) :
            /\ Len(call.tokens[i]) = EffectiveMaxLength(call.maxTokens)
            /\ \A j \in 1..Len(call.tokens[i]) :
                  /\ j <= Len(call.ens[i].ids) => call.tokens[i][j] = call.ens[i].ids[j]
                  /\ j > Len(call.ens[i].ids) => call.tokens[i][j] = 0
                  /\ call.masks[i][j] = 1 <=> call.tokens[i][j] # 0

\* What the code gives: at least maxTokens ids, the encoding whole and then
\* zeros; the mask as said.
TokenizeGivesAtLeastMaxTokens ==
    Tokenized =>
        \A i \in 1..Len(call.tokens) :
            /\ Len(call.tokens[i]) = MaxOf(EffectiveMaxLength(call.maxTokens), Len(call.ens[i].ids))
            /\ \A j \in 1..Len(call.tokens[i]) :
                  /\ j <= Len(call.ens[i].ids) => call.tokens[i][j] = call.ens[i].ids[j]
                  /\ j > Len(call.ens[i].ids) => call.tokens[i][j] = 0
                  /\ call.masks[i][j] = 1 <=> call.tokens[i][j] # 0

\* A batch was tokenized of which one text's encoding is longer than
\* maxTokens and the other's is not, and no tensor could be made of it.
TokenizeLongWitness ==
    /\ Tokenized
    /\ Len(call.ens) = 2
    /\ Len(call.ens[1].ids) > EffectiveMaxLength(call.maxTokens)
    /\ Len(call.ens[2].ids) <= EffectiveMaxLength(call.maxTokens)
    /\ call.tensor.err # ""

(***************************************************************************)
(* Properties of EmbedBatch.                                               *)
(***************************************************************************)
ContextErrors == {"context canceled", "batch processing failed: context canceled"}

\* The batches a call has run are consecutive pieces of texts 1..n, each of
\* batchSize texts but the last of the call, which may be shorter.
ConsecutiveBatches(me) ==
    /\ \A b \in 1..Len(me.batches) :
          /\ Len(me.batches[b]) >= 1
          /\ Len(me.batches[b]) <= me.batchSize
          /\ \A k \in 1..Len(me.batches[b]) : me.batches[b][k] = (b - 1) * me.batchSize + k
          /\ Len(me.batches[b]) < me.batchSize => me.batches[b][Len(me.batches[b])] = me.n

EmbedBatchResult ==
    \A w \in Embedders :
        LET me == engine.w[w]
        IN  /\ ConsecutiveBatches(me)
            /\ me.pc = "done" /\ me.err = "" => me.result = [k \in 1..me.n |-> k]
            /\ me.pc = "done" /\ me.err # "" => me.result = <<>>

EmbedBatchStopsWhenCancelled ==
    \A w \in Embedders :
        LET me == engine.w[w]
        IN  /\ engine.ctxDone
            /\ me.pc \in {"loop", "Embed"}
            /\ me.i < me.n
            /\ engine'.w[w] # me
            => /\ engine'.w[w].pc = "done"
               /\ engine'.w[w].result = <<>>
               /\ engine'.w[w].err \in ContextErrors
               /\ engine'.w[w].batches = me.batches

EmbedBatchFailedWitness ==
    \E w \in Embedders : engine.w[w].pc = "done" /\ engine.w[w].err = "batch processing failed" /\ Len(engine.w[w].all) > 0

(***************************************************************************)
(* Properties of the InferenceStats tracker.                               *)
(***************************************************************************)
Updating(w) == engine.w[w].pc \in {"updateErrorRate", "updateStats"}

\* No two of RecordInference and RecordError overlap.
UpdatesAreExclusive ==
    /\ \A w, v \in Embedders : Updating(w) /\ Updating(v) => w = v
    /\ \A w \in Embedders : Updating(w) <=> engine.stats.mutex = w

\* C33: no snapshot of the tracker is taken by GetStats while RecordInference
\* or RecordError is in progress, and no two of these updates overlap.
StatsAreExclusive ==
    /\ UpdatesAreExclusive
    /\ engine.rd.pc = "copied" => engine.rd.snap.mutex = 0

\* No call of Embed is between its first step and its return.
NoEmbedUnderWay ==
    \A w \in Embedders : engine.w[w].pc \in {"idle", "loop", "done"}

\* C40: whenever no Embed is under way and some inference was counted,
\* ErrorRate is TotalErrors / TotalInferences and lies between 0 and 1, and
\* TotalErrors <= TotalInferences; ErrorRate is never computed from more
\* errors than inferences.
ErrorRateIsErrorsOverInferences ==
    /\ engine.stats.ErrorRate.num <= engine.stats.ErrorRate.den
    /\ NoEmbedUnderWay /\ engine.stats.TotalInferences > 0 =>
          /\ engine.stats.TotalErrors <= engine.stats.TotalInferences
          /\ IsQuotient(engine.stats.ErrorRate, engine.stats.TotalErrors, engine.stats.TotalInferences)
          /\ 0 <= engine.stats.ErrorRate.num

\* Every failed Embed is counted once as an error and once as an inference:
\* with no Embed under way there are no more errors than inferences.
ErrorsAreCountedAsInferences ==
    NoEmbedUnderWay => engine.stats.TotalErrors <= engine.stats.TotalInferences

(***************************************************************************)
(* Properties of the remember short-circuit.                               *)
(***************************************************************************)
\* Run has put the acknowledgement on Hub.Out in this step.
AckEmitted ==
    /\ Len(hubOut') = Len(hubOut) + 1
    /\ hubOut'[Len(hubOut')].content = RememberReply

\* C37: the acknowledgement "OK, I've remembered that." is put on Hub.Out only
\* in a step in which AppendToday has added the note to today's file.
AckOnlyWhenAppended == [][AckEmitted => Len(notes') = Len(notes) + 1]_vars

(***************************************************************************)
(* Properties of the shutdown.                                             *)
(***************************************************************************)
\* C35: no goroutine sends on a queue that Hub.Close has closed: neither
\* Run's enqueue on Hub.Out nor the proxy's on Hub.TelegramOut or Hub.NtfyOut
\* panics the process.
NoSendOnClosedQueue == ~panicked

(***************************************************************************)
(* Properties of the histories Run leaves.                                 *)
(***************************************************************************)
\* C36: between two messages every session's history has even length and
\* alternates user, assistant from a user message on; no message of role
\* "tool" is in a session.
SessionsAlternate ==
    \A k \in DOMAIN sessions :
        /\ Len(sessions[k]) % 2 = 0
        /\ \A i \in 1..Len(sessions[k]) :
              sessions[k][i].role = IF i % 2 = 1 THEN "user" ELSE "assistant"

\* A turn was recorded in a full session and the oldest pair was trimmed from
\* it.
SessionsAlternateWitness ==
    \E k \in DOMAIN sessions :
        /\ Len(sessions[k]) = MaxHistorySize
        /\ sessions[k][1].content = "m3"
        /\ sessions[k][MaxHistorySize - 1].content = "hello"
        /\ sessions[k][MaxHistorySize].role = "assistant"
        /\ run.pc = "select"
        /\ run.attempts >= 1

(***************************************************************************)
(* Properties of the archive of trimmed messages.                          *)
(***************************************************************************)
\* The rows this step has added to table history.
NewRows == SubSeq(memRows', Len(memRows) + 1, Len(memRows'))

\* Between two messages no session is longer than MaxHistorySize.
NoSessionTooLong == \A k \in DOMAIN sessions : Len(sessions[k]) <= MaxHistorySize

\* Every row added is a message, not of role "user", that this turn makes Trim
\* cut from the session of the message being processed, under that chat's key.
RowsComeFromOwnSession ==
    \A n \in 1..Len(NewRows) :
        LET key == SessionKey(run.cur)
            cut == Len(sessions[key]) + 2 - MaxHistorySize
        IN  /\ NewRows[n].channel_id = MemoryKey(run.cur)
            /\ NewRows[n].role # "user"
            /\ \E i \in 1..cut :
                  /\ sessions[key][i].role = NewRows[n].role
                  /\ sessions[key][i].content = NewRows[n].content
            /\ \A k \in DOMAIN sessions \ {key} : Len(sessions'[k]) = Len(sessions[k])

\* C34: every row Run stores is a message of role other than "user" trimmed
\* from the session of the chat under whose key it is stored; no session but
\* that of the message being processed is over MaxHistorySize at a TrimAll.
ArchiveIsOfOwnSession == [](NoSessionTooLong) /\ [][RowsComeFromOwnSession]_vars

\* A row was archived for chat 1 after a message of chat 2 had been recorded
\* in its own full session.
ArchiveWitness ==
    /\ memRows # <<>>
    /\ memRows[1].channel_id = "telegram1"
    /\ "telegram:2" \in DOMAIN sessions
    /\ Len(sessions["telegram:2"]) = MaxHistorySize
    /\ sessions["telegram:2"][1].content = "m3"

(***************************************************************************)
(* Properties of the persistent memory of several chats.                   *)
(***************************************************************************)
\* The row is stored under the key of the chat of msg and of no other chat.
OwnedBy(row, msg) ==
    /\ row.channel_id = MemoryKey(msg)
    /\ \A m \in IsolationInbounds :
          MemoryKey(m) = row.channel_id => m.channel = msg.channel /\ m.chatID = msg.chatID

\* The memories a turn retrieves and the rows it archives are rows of the chat
\* of the message being processed.
TurnTouchesOwnRows ==
    /\ lastQuery' # lastQuery =>
          \A i \in 1..Len(lastQuery'.results) :
              OwnedBy(lastQuery'.rows[lastQuery'.results[i].id], run'.cur)
    /\ \A n \in 1..Len(NewRows) : OwnedBy(NewRows[n], run.cur)

\* Two chats that differ in channel or in chatID have different keys.
KeysAreDistinct ==
    \A m1, m2 \in IsolationInbounds :
        MemoryKey(m1) = MemoryKey(m2) => m1.channel = m2.channel /\ m1.chatID = m2.chatID

Enqueued(i) == i \in DOMAIN fate

\* Run has finished with message i: the turn is in the chat's session and the
\* enqueue of the reply on Hub.Out was attempted.
Processed(i) ==
    /\ i \in DOMAIN fate
    /\ fate[i].status # "new"
    /\ fate[i].channel \o ":" \o fate[i].chatID \in DOMAIN sessions
    /\ sessions[fate[i].channel \o ":" \o fate[i].chatID] # <<>>

\* C39: unless the context is cancelled, every message enqueued on Hub.In is
\* dequeued by Run and its processing completes, when every provider and tool
\* call returns.
EveryMessageIsProcessed ==
    \A i \in 1..MaxInbound : Enqueued(i) ~> (Processed(i) \/ cancelled)

\* Two messages were processed, Run is back at its select with Hub.In empty,
\* and nothing was cancelled.
ProcessedWitness ==
    /\ ~cancelled
    /\ Cardinality({i \in DOMAIN fate : Processed(i)}) >= 2
    /\ run.pc = "select"
    /\ hubIn = <<>>

====
